---- MODULE Spec2Model ----
(***************************************************************************)
(* PodPace: the job ledger (two Redis hashes per job), the upload and      *)
(* adjust HTTP handlers, the analyze worker and the adjust worker pool.    *)
(* One job id is modelled; every await of the TypeScript source is an      *)
(* interleaving point, the synchronous code after it belongs to the step.  *)
(* The ledger field updatedAt (a wall-clock stamp) is left out.            *)
(***************************************************************************)
EXTENDS Integers, Sequences, FiniteSets, TLC

\* ------------------------------------------------------------ bounds
\* How many POST /api/adjust requests the clients send for the job.
MaxSubmits == 2
\* Longest segment list of the single-run specification.
MaxSegs == 2
\* How many adjust requests are sent while a client polls the status.
MaxPollSubmits == 1
\* Longest utterance list given to the WPM calculator on its own.
MaxUtts == 3
\* How many adjust requests are sent in the system with Redis faults.
MaxFaultSubmits == 1

\* ------------------------------------------------- program constants
maxAttempts == 720

\* ------------------------------------------------------------ values
\* An optional value is a sequence of length 0 (absent) or 1.
None == <<>>
Some(v) == <<v>>

\* The speaker label null of an utterance (no identified speaker).
NullSpeaker == "~null"

Handlers == {"h1", "h2"}
Workers == {"w1", "w2"}

AnalysisStatuses ==
    {"PENDING", "PROCESSING_UPLOAD_CLOUD", "PROCESSING_CLOUD_ANALYSIS",
     "PROCESSING_WPM_CALCULATION"}

\* What the upload stored: the client's file name and the saved path.
OriginalFilename == "talk.mp3"
FilePath == "uploads/job.mp3"

EmptyData ==
    [originalFilename |-> None, filePath |-> None, assemblyAiTranscriptId |-> None,
     speakers |-> None, diarizationSegments |-> None, targets |-> None,
     outputFilePath |-> None, error |-> None]

\* HSET merges the given fields into the hash; a field the call does not
\* name (None here) keeps its value.
HSet(hash, upd) ==
    [f \in DOMAIN hash |-> IF upd[f] # None THEN upd[f] ELSE hash[f]]

\* ---------------------------------------------------- WPM Calculator
IsSpace(c) == c = " "

\* text.trim().split(/\s+/).filter(Boolean).length: the number of maximal
\* runs of non-whitespace characters.
WordCount(text) ==
    Cardinality({k \in 1..Len(text) :
                    /\ ~IsSpace(text[k])
                    /\ (k = 1 \/ IsSpace(text[k - 1]))})

\* A quotient cut off at the integer below.
FloorDiv(n, d) == n \div d

\* Math.round of the non-negative quotient n / d: the nearest integer, a
\* half rounded up.
RoundDiv(n, d) == (2 * n + d) \div (2 * d)

SpeakerId(label) == "Speaker_" \o label

\* The position of label in the statistics gathered so far, 0 if none:
\* speakerStats is an object, its keys kept in insertion order.
StatIndex(stats, label) ==
    LET hits == {k \in 1..Len(stats) : stats[k].label = label}
    IN IF hits = {} THEN 0 ELSE CHOOSE k \in hits : TRUE

\* An accumulation without the test for a missing speaker: the null label
\* is counted like any other.
RECURSIVE AccumulateAll(_, _)
AccumulateAll(utterances, stats) ==
    IF utterances = <<>> THEN stats
    ELSE LET u == Head(utterances)
             k == StatIndex(stats, u.speaker)
             w == WordCount(u.text)
             d == u.end - u.start
             next ==
                 IF k = 0
                 THEN Append(stats, [label |-> u.speaker, wordCount |-> w,
                                     durationMs |-> d])
                 ELSE [stats EXCEPT ![k].wordCount = @ + w,
                                    ![k].durationMs = @ + d]
         IN AccumulateAll(Tail(utterances), next)

RECURSIVE Accumulate(_, _)
Accumulate(utterances, stats) ==
    IF utterances = <<>> THEN stats
    ELSE LET u == Head(utterances)
             k == StatIndex(stats, u.speaker)
             w == WordCount(u.text)
             d == u.end - u.start
             next ==
                 IF u.speaker = NullSpeaker THEN stats
                 ELSE IF k = 0
                      THEN Append(stats, [label |-> u.speaker, wordCount |-> w,
                                          durationMs |-> d])
                      ELSE [stats EXCEPT ![k].wordCount = @ + w,
                                         ![k].durationMs = @ + d]
         IN Accumulate(Tail(utterances), next)

\* total_duration_s is kept in hundredths of a second (toFixed(2)).
SpeakerEntry(stat) ==
    IF stat.durationMs > 0 /\ stat.wordCount > 0
    THEN [id |-> SpeakerId(stat.label),
          avg_wpm |-> RoundDiv(stat.wordCount * 60000, stat.durationMs),
          total_words |-> stat.wordCount,
          total_duration_cs |-> RoundDiv(stat.durationMs, 10)]
    ELSE [id |-> SpeakerId(stat.label), avg_wpm |-> 0, total_words |-> 0,
          total_duration_cs |-> 0]

\* A transcript is an optional utterance list (the field may be missing).
calculateWPM(transcript) ==
    IF transcript = None THEN <<>>
    ELSE LET stats == Accumulate(transcript[1], <<>>)
         IN [k \in 1..Len(stats) |-> SpeakerEntry(stats[k])]

\* --------------------------------------------------- Timeline Builder
SegmentOf(utt) == [speaker |-> utt.speaker, start |-> utt.start, end |-> utt.end]

\* A timeline that leaves out the utterances without a speaker.
SpokenSegments(transcript) ==
    IF transcript = None THEN <<>>
    ELSE LET spoken == SelectSeq(transcript[1], LAMBDA utt : utt.speaker # NullSpeaker)
         IN [k \in 1..Len(spoken) |-> SegmentOf(spoken[k])]

BuildSegments(transcript) ==
    IF transcript = None THEN <<>>
    ELSE [k \in 1..Len(transcript[1]) |-> SegmentOf(transcript[1][k])]

\* ------------------------------------------------- the ASR transcripts
TenWords ==
    <<"x", " ", "x", " ", "x", " ", "x", " ", "x", " ",
      "x", " ", "x", " ", "x", " ", "x", " ", "x">>

Utt(s, a, b, t) == [speaker |-> s, start |-> a, end |-> b, text |-> t]

\* The transcripts the ASR collaborator may return in the full system.
Transcripts ==
    { Some(<<Utt("A", 0, 10000, TenWords), Utt("B", 10000, 20000, TenWords)>>),
      Some(<<Utt("A", 0, 10000, TenWords), Utt(NullSpeaker, 10000, 10000, <<"x">>)>>) }

AsrErrorText == "bad audio"
AsrFailedMsg == "AssemblyAI transcription failed: " \o AsrErrorText
TimeoutMsg == "[Job job-1] AssemblyAI transcription timed out after 720 attempts."
UploadFailedMsg == "AssemblyAI upload failed"
SubmitFailedMsg == "AssemblyAI job submission failed"

\* ----------------------------------------------------- Tempo Resolver
\* new Map(entries).get(key): the value of the last entry with that key,
\* absent when no entry has it.
MapGet(keys, vals, key) ==
    LET hits == {k \in 1..Len(keys) : keys[k] = key}
    IN IF hits = {} THEN None
       ELSE Some(vals[CHOOSE k \in hits : \A j \in hits : j <= k])

originalWpmMap(speakers, id) ==
    MapGet([k \in 1..Len(speakers) |-> speakers[k].id],
           [k \in 1..Len(speakers) |-> speakers[k].avg_wpm], id)

targetWpmMap(targets, id) ==
    MapGet([k \in 1..Len(targets) |-> targets[k].id],
           [k \in 1..Len(targets) |-> targets[k].target_wpm], id)

\* segment.speaker ? `Speaker_${segment.speaker}` : null
SegmentSpeakerId(segment) ==
    IF segment.speaker = NullSpeaker \/ segment.speaker = ""
    THEN None ELSE Some(SpeakerId(segment.speaker))

\* A tempo factor is the quotient num / den of two integers, kept as the
\* pair; 1.0 is 1 / 1.
One == [num |-> 1, den |-> 1]

\* A resolver that divides whatever the two maps hold, without the test
\* that both values are positive.
UnguardedFactor(segment, speakers, targets) ==
    LET sid == SegmentSpeakerId(segment)
        orig == IF sid = None THEN None ELSE originalWpmMap(speakers, sid[1])
        targ == IF sid = None THEN None ELSE targetWpmMap(targets, sid[1])
    IN IF sid # None /\ targ # None /\ orig # None
       THEN [num |-> targ[1], den |-> orig[1]]
       ELSE One

StretchFactor(segment, speakers, targets) ==
    LET sid == SegmentSpeakerId(segment)
        orig == IF sid = None THEN None ELSE originalWpmMap(speakers, sid[1])
        targ == IF sid = None THEN None ELSE targetWpmMap(targets, sid[1])
    IN IF sid # None /\ targ # None /\ orig # None
          /\ orig[1] > 0 /\ targ[1] > 0
       THEN [num |-> targ[1], den |-> orig[1]]
       ELSE One

Abs(x) == IF x < 0 THEN -x ELSE x

\* A threshold test that sends every segment to the stretch tool.
StretchAlways(f) == TRUE

\* Math.abs(stretchFactor - 1.0) > 0.01, evaluated in IEEE-754 doubles as
\* the source does. The quotient is rounded to the nearest double: for a
\* quotient of exactly 1.01 that double lies above 1.01 and for 0.99 below
\* 0.99, so the difference (0.010000000000000009) exceeds 0.01. Every other
\* quotient of integers this small compares as the exact one does.
NeedsStretch(f) ==
    LET exact == 100 * Abs(f.num - f.den)
    IN IF exact = f.den THEN TRUE ELSE exact > f.den

\* ------------------------------------------------ temporary file names
RECURSIVE Digits(_)
Digits(n) == IF n < 10 THEN <<n>> ELSE Append(Digits(n \div 10), n % 10)

RECURSIVE PadStart(_, _)
PadStart(ds, width) == IF Len(ds) >= width THEN ds ELSE PadStart(<<0>> \o ds, width)

\* An index kept to four digits: the digits above the fourth are cut off.
FixedWidthIndex(i) == PadStart(Digits(i % 10000), 4)

\* String(i).padStart(4, '0')
SegmentIndex(i) == PadStart(Digits(i), 4)

tempInputPath(i) == [kind |-> "input", idx |-> SegmentIndex(i)]
tempOutputPath(i) == [kind |-> "output", idx |-> SegmentIndex(i)]
concatFilePath == [kind |-> "concat_list", idx |-> <<>>]

\* path.parse(originalFilename).name + "_normalized.mp3" under OUTPUT_DIR
FinalOutputPath == "output/talk_normalized.mp3"

DurationMs(segment) == segment.end - segment.start

\* ------------------------------------------------------------- state
VARIABLES
    status,        \* field status of hash job:<id>:status, "NONE" while the hash is empty
    data,          \* hash job:<id>:data
    ledgerOk,      \* Redis accepts the ledger's transactions (FALSE: EXEC is refused)
    stalled,       \* per queue: the broker has found the queue's active task stalled once
    upPc, upResp,  \* handleUpload: position and HTTP response
    analyzeQueue,  \* analyze tasks waiting (a count)
    adjustQueue,   \* adjust tasks waiting, each the payload's targets
    asrState,      \* the transcript's status at the ASR collaborator
    aPc, attempts, aErr, aTranscript,        \* processAnalyzeJob
    submitsLeft,   \* adjust requests the clients may still send
    hPc, hStatus, hTargets,                  \* handleAdjust, per request handler
    wPc, wTargets, wSpeakers, wSegments, wI, wPaths, wErr, wLog,  \* adjust worker, per slot
    pPc, pStatus, pInfo,                     \* handleStatus: a client polling GET /api/status
    dPc, dStatus, dInfo, dResp,              \* handleDownload: a client of GET /api/download
    app,           \* the App component's state (browser)
    progress,      \* the JobProgress component: mounted or not, its state and refs
    requests,      \* the browser's requests in flight and the uploads sent so far
    tempDir,       \* the job's temporary directory: None, or Some(set of files in it)
    manifest,      \* the content of concat_list.txt: None, or Some(list of paths)
    outputFiles    \* files in OUTPUT_DIR

\* What Redis holds besides the queues' waiting lists.
\* No task has been found stalled.
NotStalled == [q \in {"analyze", "adjust"} |-> FALSE]

ledgerVars == <<status, data, ledgerOk, stalled>>
uploadVars == <<upPc, upResp>>
asrVars == <<asrState>>
analyzeVars == <<aPc, attempts, aErr, aTranscript>>
handlerVars == <<submitsLeft, hPc, hStatus, hTargets>>
workerVars == <<wPc, wTargets, wSpeakers, wSegments, wI, wPaths, wErr, wLog>>
fsVars == <<tempDir, manifest, outputFiles>>
downloadVars == <<dPc, dStatus, dInfo, dResp>>
pollVars == <<pPc, pStatus, pInfo, downloadVars, app, progress, requests>>
vars == <<status, data, ledgerOk, stalled, upPc, upResp, analyzeQueue, adjustQueue, asrState,
          aPc, attempts, aErr, aTranscript, submitsLeft, hPc, hStatus, hTargets,
          wPc, wTargets, wSpeakers, wSegments, wI, wPaths, wErr, wLog,
          pPc, pStatus, pInfo, dPc, dStatus, dInfo, dResp, app, progress, requests,
          tempDir, manifest, outputFiles>>

\* A write that is no transaction: when Redis refuses the data, the status
\* has been set all the same.
PartialWrite(st, upd) ==
    /\ status' = st
    /\ data' = IF ledgerOk THEN HSet(data, upd) ELSE data
    /\ UNCHANGED <<ledgerOk, stalled>>

\* updateJobStatus: one MULTI/EXEC transaction sets the status field and,
\* when data is given, merges it into the data hash. Redis runs the
\* transaction atomically, or refuses it as a whole: multi.exec() then
\* rejects, the catch logs the error and the function returns normally.
updateJobStatus(st, upd) ==
    /\ status' = IF ledgerOk THEN st ELSE status
    /\ data' = IF ledgerOk THEN HSet(data, upd) ELSE data
    /\ UNCHANGED <<ledgerOk, stalled>>

Upd(fields) == [f \in DOMAIN EmptyData |-> IF f \in DOMAIN fields THEN fields[f] ELSE None]
NoData == EmptyData

\* The browser before anything was uploaded: App's initial state (the
\* isLoading flag only shows a text and is left out), no JobProgress
\* mounted, no request in flight.
FrontendIdle ==
    /\ app = [jobId |-> None, jobStatus |-> "IDLE", speakerData |-> <<>>,
              error |-> None, outputFilename |-> None]
    /\ progress = [mounted |-> FALSE, isPollingActive |-> FALSE, isFetching |-> FALSE,
                   interval |-> None]
    /\ requests = [uploads |-> {}, submits |-> 0, fetches |-> <<>>, jobs |-> 0]

WorkersIdle ==
    /\ wPc = [w \in Workers |-> "idle"]
    /\ wTargets = [w \in Workers |-> <<>>]
    /\ wSpeakers = [w \in Workers |-> <<>>]
    /\ wSegments = [w \in Workers |-> <<>>]
    /\ wI = [w \in Workers |-> 0]
    /\ wPaths = [w \in Workers |-> <<>>]
    /\ wErr = [w \in Workers |-> None]
    /\ wLog = [w \in Workers |-> <<>>]

HandlersIdle ==
    /\ hPc = [h \in Handlers |-> "idle"]
    /\ hStatus = [h \in Handlers |-> "NONE"]
    /\ hTargets = [h \in Handlers |-> <<>>]

\* The state before the upload request: no ledger record, nothing queued;
\* the clients will send up to n adjust requests.
InitWith(n) ==
    /\ status = "NONE"
    /\ data = EmptyData
    /\ ledgerOk = TRUE /\ stalled = NotStalled
    /\ upPc = "start" /\ upResp = 0
    /\ analyzeQueue = 0
    /\ adjustQueue = <<>>
    /\ asrState = "none"
    /\ aPc = "idle" /\ attempts = 0 /\ aErr = None /\ aTranscript = None
    /\ submitsLeft = n
    /\ HandlersIdle
    /\ WorkersIdle
    /\ pPc = "idle" /\ pStatus = "NONE" /\ pInfo = None
    /\ dPc = "idle" /\ dStatus = "NONE" /\ dInfo = None /\ dResp = None
    /\ FrontendIdle
    /\ tempDir = None
    /\ manifest = None
    /\ outputFiles = {}

Init == InitWith(MaxSubmits)

\* ------------------------------------------------------- handleUpload
\* The request is refused (content type, file missing, empty or not audio)
\* or saving the file fails: an error response, nothing written.
UploadRejected ==
    /\ upPc = "start"
    /\ \E code \in {400, 500} : upResp' = code
    /\ upPc' = "done"
    /\ UNCHANGED <<ledgerVars, analyzeQueue, adjustQueue, asrVars, analyzeVars,
                   handlerVars, workerVars, pollVars, fsVars>>

\* Validation passed and Bun.write saved the file.
UploadSaved ==
    /\ upPc = "start"
    /\ upPc' = "status"
    /\ UNCHANGED <<upResp, ledgerVars, analyzeQueue, adjustQueue, asrVars, analyzeVars,
                   handlerVars, workerVars, pollVars, fsVars>>

UploadWritePending ==
    /\ upPc = "status"
    /\ updateJobStatus("PENDING", Upd([originalFilename |-> Some(OriginalFilename),
                                       filePath |-> Some(FilePath)]))
    /\ upPc' = "enqueue"
    /\ UNCHANGED <<upResp, analyzeQueue, adjustQueue, asrVars, analyzeVars,
                   handlerVars, workerVars, pollVars, fsVars>>

\* analyzeAudioQueue.add resolves (202) or rejects (caught: 500).
UploadEnqueue ==
    /\ upPc = "enqueue"
    /\ \/ analyzeQueue' = analyzeQueue + 1 /\ upResp' = 202
       \/ analyzeQueue' = analyzeQueue /\ upResp' = 500
    /\ upPc' = "done"
    /\ UNCHANGED <<ledgerVars, adjustQueue, asrVars, analyzeVars,
                   handlerVars, workerVars, pollVars, fsVars>>

UploadNext == UploadRejected \/ UploadSaved \/ UploadWritePending \/ UploadEnqueue

\* ------------------------------------------------------ JSON encoding
\* JSON.stringify of an array gives a text, JSON.parse reads it back.
JSONstringify(v) == [json |-> v]
JSONparse(text) == text.json

\* --------------------------------------------------- processAnalyzeJob
AnalyzeFrame == <<uploadVars, adjustQueue, handlerVars, workerVars, pollVars, fsVars>>

AnalyzeTake ==
    /\ aPc = "idle" /\ analyzeQueue > 0
    /\ analyzeQueue' = analyzeQueue - 1
    /\ aPc' = "status1"
    /\ UNCHANGED <<ledgerVars, asrVars, attempts, aErr, aTranscript, AnalyzeFrame>>

AnalyzeStatusUpload ==
    /\ aPc = "status1"
    /\ updateJobStatus("PROCESSING_UPLOAD_CLOUD", NoData)
    /\ aPc' = "upload"
    /\ UNCHANGED <<analyzeQueue, asrVars, attempts, aErr, aTranscript, AnalyzeFrame>>

\* uploadFileToAssemblyAI returns the upload url or throws.
AnalyzeUpload ==
    /\ aPc = "upload"
    /\ \/ aPc' = "status2" /\ aErr' = aErr
       \/ aPc' = "fail" /\ aErr' = Some(UploadFailedMsg)
    /\ UNCHANGED <<ledgerVars, analyzeQueue, asrVars, attempts, aTranscript, AnalyzeFrame>>

AnalyzeStatusCloud ==
    /\ aPc = "status2"
    /\ updateJobStatus("PROCESSING_CLOUD_ANALYSIS", NoData)
    /\ aPc' = "submit"
    /\ UNCHANGED <<analyzeQueue, asrVars, attempts, aErr, aTranscript, AnalyzeFrame>>

\* submitTranscriptionJob returns the transcript id or throws.
AnalyzeSubmit ==
    /\ aPc = "submit"
    /\ \/ aPc' = "poll" /\ aErr' = aErr /\ asrState' = "queued"
       \/ aPc' = "fail" /\ aErr' = Some(SubmitFailedMsg) /\ asrState' = asrState
    /\ UNCHANGED <<ledgerVars, analyzeQueue, attempts, aTranscript, AnalyzeFrame>>

\* The ASR collaborator works on the transcript: queued, processing, then
\* completed or error, which are final.
AsrProgress ==
    /\ \/ asrState = "queued" /\ asrState' = "processing"
       \/ asrState = "processing" /\ asrState' \in {"completed", "error"}
    /\ UNCHANGED <<ledgerVars, analyzeQueue, analyzeVars, AnalyzeFrame>>

\* A loop body that does not count the attempt.
UncountedAttempt(n) == n

\* attempts++ at the head of the loop body.
NextAttempt(n) == n + 1

\* The poll's HTTP response is not OK, the fetch throws, or the status is
\* none of the known ones: sleep, next iteration.
PollTransient ==
    /\ aPc = "poll" /\ attempts < maxAttempts
    /\ attempts' = NextAttempt(attempts)
    /\ UNCHANGED <<ledgerVars, analyzeQueue, asrVars, aPc, aErr, aTranscript, AnalyzeFrame>>

PollPending ==
    /\ aPc = "poll" /\ attempts < maxAttempts
    /\ asrState \in {"queued", "processing"}
    /\ attempts' = NextAttempt(attempts)
    /\ UNCHANGED <<ledgerVars, analyzeQueue, asrVars, aPc, aErr, aTranscript, AnalyzeFrame>>

\* What the loop does with the Error thrown for status error: the throw is
\* inside the try block of the loop body, whose catch logs and sleeps.
OnAsrError(pc) == pc

\* Status error: the Error is thrown inside the loop's try block.
PollError ==
    /\ aPc = "poll" /\ attempts < maxAttempts
    /\ asrState = "error"
    /\ attempts' = NextAttempt(attempts)
    /\ aPc' = OnAsrError(aPc)
    /\ aErr' = IF aPc' = "fail" THEN Some(AsrFailedMsg) ELSE aErr
    /\ UNCHANGED <<ledgerVars, analyzeQueue, asrVars, aTranscript, AnalyzeFrame>>

\* Status completed: the transcript is returned.
PollCompleted ==
    /\ aPc = "poll" /\ attempts < maxAttempts
    /\ asrState = "completed"
    /\ \E t \in Transcripts : aTranscript' = t
    /\ attempts' = 0
    /\ aPc' = "status3"
    /\ UNCHANGED <<ledgerVars, analyzeQueue, asrVars, aErr, AnalyzeFrame>>

\* The loop condition fails: the timeout Error is thrown.
PollTimeout ==
    /\ aPc = "poll" /\ ~(attempts < maxAttempts)
    /\ aErr' = Some(TimeoutMsg)
    /\ attempts' = 0
    /\ aPc' = "fail"
    /\ UNCHANGED <<ledgerVars, analyzeQueue, asrVars, aTranscript, AnalyzeFrame>>

AnalyzeStatusWpm ==
    /\ aPc = "status3"
    /\ updateJobStatus("PROCESSING_WPM_CALCULATION", NoData)
    /\ aPc' = "ready"
    /\ UNCHANGED <<analyzeQueue, asrVars, attempts, aErr, aTranscript, AnalyzeFrame>>

\* The data written with READY_FOR_INPUT.
ReadyData(transcript) ==
    Upd([assemblyAiTranscriptId |-> Some("transcript-1"),
         speakers |-> Some(JSONstringify(calculateWPM(transcript))),
         diarizationSegments |-> Some(JSONstringify(BuildSegments(transcript)))])

AnalyzeReady ==
    /\ aPc = "ready"
    /\ updateJobStatus("READY_FOR_INPUT", ReadyData(aTranscript))
    /\ aPc' = "done"
    /\ UNCHANGED <<analyzeQueue, asrVars, attempts, aErr, aTranscript, AnalyzeFrame>>

\* The catch of processAnalyzeJob.
AnalyzeFail ==
    /\ aPc = "fail"
    /\ updateJobStatus("FAILED", Upd([error |-> aErr]))
    /\ aPc' = "done"
    /\ UNCHANGED <<analyzeQueue, asrVars, attempts, aErr, aTranscript, AnalyzeFrame>>

AnalyzeNext ==
    \/ AnalyzeTake \/ AnalyzeStatusUpload \/ AnalyzeUpload \/ AnalyzeStatusCloud
    \/ AnalyzeSubmit \/ PollTransient \/ PollPending \/ PollError \/ PollCompleted
    \/ PollTimeout \/ AnalyzeStatusWpm \/ AnalyzeReady \/ AnalyzeFail

\* -------------------------------------------------------- handleAdjust
HandlerFrame == <<uploadVars, analyzeQueue, asrVars, analyzeVars, workerVars, pollVars, fsVars>>

\* The target lists the clients submit in the full system.
TargetChoices ==
    { <<[id |-> "Speaker_A", target_wpm |-> 120]>>,
      <<[id |-> "Speaker_B", target_wpm |-> 60]>> }

\* getJobInfo, first read: HGETALL of the status hash.
AdjustReadStatus(h) ==
    /\ hPc[h] = "idle" /\ submitsLeft > 0
    /\ submitsLeft' = submitsLeft - 1
    /\ hStatus' = [hStatus EXCEPT ![h] = status]
    /\ hPc' = [hPc EXCEPT ![h] = "readData"]
    /\ UNCHANGED <<ledgerVars, adjustQueue, hTargets, HandlerFrame>>

\* Allow adjust if the job is ready or if it previously failed.
AdjustAllowed(st) == st = "READY_FOR_INPUT" \/ st = "FAILED"

\* getJobInfo, second read: HGETALL of the data hash; then the checks of
\* handleAdjust on the status read before: 404 for no job, 409 for a status
\* that does not allow an adjustment.
AdjustReadData(h) ==
    /\ hPc[h] = "readData"
    /\ hPc' = [hPc EXCEPT ![h] = IF AdjustAllowed(hStatus[h]) THEN "body" ELSE "idle"]
    /\ hStatus' = [hStatus EXCEPT ![h] = IF AdjustAllowed(@) THEN @ ELSE "NONE"]
    /\ UNCHANGED <<ledgerVars, adjustQueue, submitsLeft, hTargets, HandlerFrame>>

\* The body does not parse or its targets are no non-empty array: 400 (500
\* for a body that is no JSON), nothing written.
AdjustBadBody(h) ==
    /\ hPc[h] = "body"
    /\ hPc' = [hPc EXCEPT ![h] = "idle"]
    /\ hStatus' = [hStatus EXCEPT ![h] = "NONE"]
    /\ UNCHANGED <<ledgerVars, adjustQueue, submitsLeft, hTargets, HandlerFrame>>

\* The status an accepted submission writes.
AdjustQueuedStatus == "QUEUED_FOR_ADJUSTMENT"

\* updateJobStatus stores a value that is no string as its JSON text: the
\* null given for error is stored as the four characters null.
QueuedData(targets) ==
    Upd([targets |-> Some(JSONstringify(targets)), error |-> Some("null")])

AdjustWrite(h) ==
    /\ hPc[h] = "body"
    /\ \E targets \in TargetChoices :
          /\ updateJobStatus(AdjustQueuedStatus, QueuedData(targets))
          /\ hTargets' = [hTargets EXCEPT ![h] = targets]
    /\ hPc' = [hPc EXCEPT ![h] = "enqueue"]
    /\ UNCHANGED <<adjustQueue, submitsLeft, hStatus, HandlerFrame>>

\* adjustAudioQueue.add resolves (202) or rejects (caught: 500).
AdjustEnqueue(h) ==
    /\ hPc[h] = "enqueue"
    /\ \/ adjustQueue' = Append(adjustQueue, hTargets[h])
       \/ adjustQueue' = adjustQueue
    /\ hPc' = [hPc EXCEPT ![h] = "idle"]
    /\ hStatus' = [hStatus EXCEPT ![h] = "NONE"]
    /\ hTargets' = [hTargets EXCEPT ![h] = <<>>]
    /\ UNCHANGED <<ledgerVars, submitsLeft, HandlerFrame>>

HandlerNext ==
    \E h \in Handlers :
        \/ AdjustReadStatus(h) \/ AdjustReadData(h) \/ AdjustBadBody(h)
        \/ AdjustWrite(h) \/ AdjustEnqueue(h)

\* ---------------------------------- processAdjustJob (the adjust worker)
WorkerFrame == <<uploadVars, analyzeQueue, asrVars, analyzeVars, handlerVars, pollVars>>

MissingDataMsg == "Failed to retrieve necessary analysis data from Redis."

LogEntry(c, i, f, ok) == [cmd |-> c, seg |-> i, factor |-> f, ok |-> ok]

\* A loop head without the duration test: every segment is processed.
EverySegment(segments, i) == IF i >= Len(segments) THEN Len(segments) ELSE i

\* The loop head: the first index from i on whose segment has a positive
\* duration (the others are skipped by continue), Len(segments) if none.
RECURSIVE NextSegment(_, _)
NextSegment(segments, i) ==
    IF i >= Len(segments) THEN Len(segments)
    ELSE IF DurationMs(segments[i + 1]) <= 0 THEN NextSegment(segments, i + 1)
    ELSE i

\* A loop that goes on to the reconstruction once one segment is processed.
EarlyReconstruction(segments, i) ==
    IF i = 0 /\ NextSegment(segments, i) < Len(segments) THEN "extract" ELSE "statusRecon"

\* The position after the loop head has run from index i.
LoopPc(segments, i) ==
    IF NextSegment(segments, i) < Len(segments) THEN "extract" ELSE "statusRecon"

\* BullMQ hands the oldest waiting task to a free slot of the worker.
WorkerTake(w) ==
    /\ wPc[w] = "idle" /\ adjustQueue # <<>>
    /\ wTargets' = [wTargets EXCEPT ![w] = Head(adjustQueue)]
    /\ adjustQueue' = Tail(adjustQueue)
    /\ wPc' = [wPc EXCEPT ![w] = "mkdir"]
    /\ UNCHANGED <<ledgerVars, wSpeakers, wSegments, wI, wPaths, wErr, wLog,
                   fsVars, WorkerFrame>>

\* fs.mkdir(tempDir, {recursive: true}), before the try block.
WorkerMkdir(w) ==
    /\ wPc[w] = "mkdir"
    /\ \/ /\ tempDir' = IF tempDir = None THEN Some({}) ELSE tempDir
          /\ wPc' = [wPc EXCEPT ![w] = "statusAdjust"]
          /\ wErr' = wErr
       \/ /\ tempDir = None /\ tempDir' = tempDir
          /\ wPc' = [wPc EXCEPT ![w] = "final"]
          /\ wErr' = [wErr EXCEPT ![w] = Some("mkdir failed")]
    /\ UNCHANGED <<ledgerVars, adjustQueue, wTargets, wSpeakers, wSegments, wI, wPaths,
                   wLog, manifest, outputFiles, WorkerFrame>>

WorkerStatusAdjust(w) ==
    /\ wPc[w] = "statusAdjust"
    /\ updateJobStatus("PROCESSING_ADJUSTMENT", NoData)
    /\ wPc' = [wPc EXCEPT ![w] = "getData"]
    /\ UNCHANGED <<adjustQueue, wTargets, wSpeakers, wSegments, wI, wPaths, wErr, wLog,
                   fsVars, WorkerFrame>>

\* getJobAnalysisData: null when a field is missing.
HasAnalysisData(hash) == hash.speakers # None /\ hash.diarizationSegments # None

\* A stored field that JSON.parse cannot read: the text is not JSON.
Garbled == [text |-> "{"]

\* JSON.parse returns instead of throwing a SyntaxError.
Parses(text) == DOMAIN text = {"json"}

\* A retrieval that reads a missing or unreadable field as an empty list.
AnalysisDataOrEmpty(hash) ==
    LET read(field) == IF field # None /\ Parses(field[1]) THEN JSONparse(field[1]) ELSE <<>>
    IN Some([speakers |-> read(hash.speakers), segments |-> read(hash.diarizationSegments)])

\* getJobAnalysisData: null when a field is missing or when JSON.parse
\* throws, which the function's catch turns into null.
getJobAnalysisData(hash) ==
    IF ~HasAnalysisData(hash) THEN None
    ELSE IF ~Parses(hash.speakers[1]) \/ ~Parses(hash.diarizationSegments[1]) THEN None
    ELSE Some([speakers |-> JSONparse(hash.speakers[1]),
               segments |-> JSONparse(hash.diarizationSegments[1])])

WorkerGetData(w) ==
    /\ wPc[w] = "getData"
    /\ LET analysisData == getJobAnalysisData(data)
       IN IF analysisData # None
          THEN LET segments == analysisData[1].segments
               IN /\ wSpeakers' = [wSpeakers EXCEPT ![w] = analysisData[1].speakers]
                  /\ wSegments' = [wSegments EXCEPT ![w] = segments]
                  /\ wI' = [wI EXCEPT ![w] = NextSegment(segments, 0)]
                  /\ wPc' = [wPc EXCEPT ![w] = LoopPc(segments, 0)]
                  /\ wErr' = wErr
          ELSE /\ wErr' = [wErr EXCEPT ![w] = Some(MissingDataMsg)]
               /\ wPc' = [wPc EXCEPT ![w] = "cleanup"]
               /\ UNCHANGED <<wSpeakers, wSegments, wI>>
    /\ UNCHANGED <<ledgerVars, adjustQueue, wTargets, wPaths, wLog, fsVars, WorkerFrame>>

\* A resolver whose result depends on the slot that runs the task, not only
\* on the run's inputs.
SlotFactor(w) ==
    IF w = "w1" THEN StretchFactor(wSegments[w][wI[w] + 1], wSpeakers[w], wTargets[w])
    ELSE One

\* The factor resolved for the segment the worker is at.
CurrentFactor(w) == StretchFactor(wSegments[w][wI[w] + 1], wSpeakers[w], wTargets[w])

\* An unshift in place of the push: the path goes to the front of the list.
Unshift(paths, p) == <<p>> \o paths

\* processedSegmentPaths.push(path)
Push(paths, p) == Append(paths, p)

\* A failed command whose Error is swallowed: the run goes on to the
\* reconstruction.
SwallowFailure(w, c, f, msg) ==
    /\ wLog' = [wLog EXCEPT ![w] = Append(@, LogEntry(c, wI[w], f, FALSE))]
    /\ wErr' = wErr
    /\ wPc' = [wPc EXCEPT ![w] = "statusRecon"]

\* A command of the run fails: the Error leaves the try block.
Throw(w, c, f, msg) ==
    /\ wLog' = [wLog EXCEPT ![w] = Append(@, LogEntry(c, wI[w], f, FALSE))]
    /\ wErr' = [wErr EXCEPT ![w] = Some(msg)]
    /\ wPc' = [wPc EXCEPT ![w] = "cleanup"]

\* ffmpeg extracts the slice into tempInputPath. With no stretch needed the
\* slice is pushed and the loop goes on to the next segment.
WorkerExtract(w) ==
    /\ wPc[w] = "extract"
    /\ \/ /\ tempDir # None
          /\ tempDir' = Some(tempDir[1] \cup {tempInputPath(wI[w])})
          /\ wLog' = [wLog EXCEPT ![w] = Append(@, LogEntry("extract", wI[w], One, TRUE))]
          /\ wErr' = wErr
          /\ IF NeedsStretch(CurrentFactor(w))
             THEN /\ wPc' = [wPc EXCEPT ![w] = "stretch"]
                  /\ UNCHANGED <<wPaths, wI>>
             ELSE /\ wPaths' = [wPaths EXCEPT ![w] = Push(@, tempInputPath(wI[w]))]
                  /\ wI' = [wI EXCEPT ![w] = NextSegment(wSegments[w], @ + 1)]
                  /\ wPc' = [wPc EXCEPT ![w] = LoopPc(wSegments[w], wI[w] + 1)]
       \/ /\ Throw(w, "extract", One, "ffmpeg extract failed")
          /\ UNCHANGED <<tempDir, wPaths, wI>>
    /\ UNCHANGED <<ledgerVars, adjustQueue, wTargets, wSpeakers, wSegments,
                   manifest, outputFiles, WorkerFrame>>

\* rubberband --tempo factor input output; the output path is pushed.
WorkerStretch(w) ==
    /\ wPc[w] = "stretch"
    /\ \/ /\ tempDir # None /\ tempInputPath(wI[w]) \in tempDir[1]
          /\ tempDir' = Some(tempDir[1] \cup {tempOutputPath(wI[w])})
          /\ wLog' = [wLog EXCEPT ![w] =
                         Append(@, LogEntry("stretch", wI[w], CurrentFactor(w), TRUE))]
          /\ wPaths' = [wPaths EXCEPT ![w] = Push(@, tempOutputPath(wI[w]))]
          /\ wPc' = [wPc EXCEPT ![w] = "rm"]
          /\ wErr' = wErr
       \/ /\ Throw(w, "stretch", CurrentFactor(w), "rubberband failed")
          /\ UNCHANGED <<tempDir, wPaths>>
    /\ UNCHANGED <<ledgerVars, adjustQueue, wTargets, wSpeakers, wSegments, wI,
                   manifest, outputFiles, WorkerFrame>>

\* rm -f tempInputPath after a stretch, then the next segment.
WorkerRm(w) ==
    /\ wPc[w] = "rm"
    /\ tempDir' = IF tempDir = None THEN None
                  ELSE Some(tempDir[1] \ {tempInputPath(wI[w])})
    /\ wLog' = [wLog EXCEPT ![w] = Append(@, LogEntry("rm", wI[w], One, TRUE))]
    /\ wI' = [wI EXCEPT ![w] = NextSegment(wSegments[w], @ + 1)]
    /\ wPc' = [wPc EXCEPT ![w] = LoopPc(wSegments[w], wI[w] + 1)]
    /\ UNCHANGED <<ledgerVars, adjustQueue, wTargets, wSpeakers, wSegments, wPaths, wErr,
                   manifest, outputFiles, WorkerFrame>>

WorkerStatusRecon(w) ==
    /\ wPc[w] = "statusRecon"
    /\ updateJobStatus("PROCESSING_RECONSTRUCTION", NoData)
    /\ wPc' = [wPc EXCEPT ![w] = "manifest"]
    /\ UNCHANGED <<adjustQueue, wTargets, wSpeakers, wSegments, wI, wPaths, wErr, wLog,
                   fsVars, WorkerFrame>>

\* fs.writeFile(concatFilePath, one line per processed path).
WorkerManifest(w) ==
    /\ wPc[w] = "manifest"
    /\ \/ /\ tempDir # None
          /\ tempDir' = Some(tempDir[1] \cup {concatFilePath})
          /\ manifest' = Some(wPaths[w])
          /\ wLog' = [wLog EXCEPT ![w] =
                         Append(@, LogEntry("manifest", Len(wSegments[w]), One, TRUE))]
          /\ wPc' = [wPc EXCEPT ![w] = "concat"]
          /\ wErr' = wErr
       \/ /\ wLog' = [wLog EXCEPT ![w] =
                         Append(@, LogEntry("manifest", Len(wSegments[w]), One, FALSE))]
          /\ wErr' = [wErr EXCEPT ![w] = Some("writing the concat list failed")]
          /\ wPc' = [wPc EXCEPT ![w] = "cleanup"]
          /\ UNCHANGED <<tempDir, manifest>>
    /\ UNCHANGED <<ledgerVars, adjustQueue, wTargets, wSpeakers, wSegments, wI, wPaths,
                   outputFiles, WorkerFrame>>

\* Every file the concat list names is there for ffmpeg to read.
ManifestReadable ==
    /\ tempDir # None /\ manifest # None /\ concatFilePath \in tempDir[1]
    /\ \A k \in 1..Len(manifest[1]) : manifest[1][k] \in tempDir[1]

\* ffmpeg -f concat writes the final output file.
WorkerConcat(w) ==
    /\ wPc[w] = "concat"
    /\ \/ /\ ManifestReadable
          /\ outputFiles' = outputFiles \cup {FinalOutputPath}
          /\ wLog' = [wLog EXCEPT ![w] =
                         Append(@, LogEntry("concat", Len(wSegments[w]), One, TRUE))]
          /\ wErr' = wErr
       \/ /\ wLog' = [wLog EXCEPT ![w] =
                         Append(@, LogEntry("concat", Len(wSegments[w]), One, FALSE))]
          /\ wErr' = [wErr EXCEPT ![w] = Some("ffmpeg concat failed")]
          /\ outputFiles' = outputFiles
    /\ wPc' = [wPc EXCEPT ![w] = "cleanup"]
    /\ UNCHANGED <<ledgerVars, adjustQueue, wTargets, wSpeakers, wSegments, wI, wPaths,
                   tempDir, manifest, WorkerFrame>>

\* A finally block that removes nothing.
KeepTempDir(dir) == dir

\* What fs.rm(tempDir, {recursive: true, force: true}) leaves of the directory.
RemoveTempDir(dir) == None

\* The finally block of processAudioAdjustment.
WorkerCleanup(w) ==
    /\ wPc[w] = "cleanup"
    /\ tempDir' = RemoveTempDir(tempDir)
    /\ manifest' = IF tempDir' = None THEN None ELSE manifest
    /\ wPc' = [wPc EXCEPT ![w] = "final"]
    /\ UNCHANGED <<ledgerVars, adjustQueue, wTargets, wSpeakers, wSegments, wI, wPaths,
                   wErr, wLog, outputFiles, WorkerFrame>>

\* A catch that marks a failed job as queued again without enqueueing it.
RequeueOnFailure(err) == IF err = None THEN "COMPLETE" ELSE "QUEUED_FOR_ADJUSTMENT"

\* A catch that sends a failed job back to the start of the analysis.
RestartOnFailure(err) == IF err = None THEN "COMPLETE" ELSE "PENDING"

\* The status processAdjustJob writes for a run that returned (err = None)
\* or threw.
FinalStatus(err) == IF err = None THEN "COMPLETE" ELSE "FAILED"

\* A catch that also resets the analysis results of the failed job.
FinalDataResettingAnalysis(err) ==
    IF err = None THEN Upd([outputFilePath |-> Some(FinalOutputPath)])
    ELSE Upd([error |-> err, speakers |-> Some(JSONstringify(<<>>)),
              diarizationSegments |-> Some(JSONstringify(<<>>))])

FinalData(err) ==
    IF err = None THEN Upd([outputFilePath |-> Some(FinalOutputPath)])
    ELSE Upd([error |-> err])

\* processAdjustJob after processAudioAdjustment: COMPLETE with the output
\* path, or FAILED with the message in the catch. The slot is then free.
WorkerFinal(w) ==
    /\ wPc[w] = "final"
    /\ updateJobStatus(FinalStatus(wErr[w]), FinalData(wErr[w]))
    /\ wPc' = [wPc EXCEPT ![w] = "idle"]
    /\ wTargets' = [wTargets EXCEPT ![w] = <<>>]
    /\ wSpeakers' = [wSpeakers EXCEPT ![w] = <<>>]
    /\ wSegments' = [wSegments EXCEPT ![w] = <<>>]
    /\ wI' = [wI EXCEPT ![w] = 0]
    /\ wPaths' = [wPaths EXCEPT ![w] = <<>>]
    /\ wErr' = [wErr EXCEPT ![w] = None]
    /\ wLog' = [wLog EXCEPT ![w] = <<>>]
    /\ UNCHANGED <<adjustQueue, fsVars, WorkerFrame>>

WorkerNext ==
    \E w \in Workers :
        \/ WorkerTake(w) \/ WorkerMkdir(w) \/ WorkerStatusAdjust(w) \/ WorkerGetData(w)
        \/ WorkerExtract(w) \/ WorkerStretch(w) \/ WorkerRm(w) \/ WorkerStatusRecon(w)
        \/ WorkerManifest(w) \/ WorkerConcat(w) \/ WorkerCleanup(w) \/ WorkerFinal(w)

\* ------------------------------------------------------ the full system
Next == UploadNext \/ AnalyzeNext \/ AsrProgress \/ HandlerNext \/ WorkerNext

Spec == Init /\ [][Next]_vars

\* --------------------------------------------- getJobInfo / handleStatus
PollFrame ==
    <<ledgerVars, uploadVars, analyzeQueue, adjustQueue, asrVars, analyzeVars,
      handlerVars, workerVars, fsVars, downloadVars, app, progress, requests>>

\* A getJobInfo that reads the data hash before the status hash.
DataHashFirst == "data"

\* The hash getJobInfo reads first.
FirstRead == "status"

\* What getJobInfo returns: null (None) when the status hash is empty,
\* else the fields of the status hash and of the data hash together.
JobInfo(st, hash) == IF st = "NONE" THEN None ELSE Some([status |-> st, data |-> hash])

\* First HGETALL of getJobInfo. The value read is kept until the second
\* read; pStatus holds the status when the status hash was the one read.
PollFirstRead ==
    /\ pPc = "idle"
    /\ pStatus' = IF FirstRead = "status" THEN status ELSE "NONE"
    /\ pInfo' = IF FirstRead = "status" THEN None ELSE Some([status |-> "NONE", data |-> data])
    /\ pPc' = "second"
    /\ UNCHANGED PollFrame

\* Second HGETALL of getJobInfo: the job info is complete.
PollSecondRead ==
    /\ pPc = "second"
    /\ pInfo' = IF FirstRead = "status" THEN JobInfo(pStatus, data)
                ELSE JobInfo(status, pInfo[1].data)
    /\ pStatus' = "NONE"
    /\ pPc' = "respond"
    /\ UNCHANGED PollFrame

\* handleStatus sends the response (404 for no job info); the client may
\* poll again.
PollRespond ==
    /\ pPc = "respond"
    /\ pInfo' = None
    /\ pPc' = "idle"
    /\ UNCHANGED <<pStatus, PollFrame>>

PollNext == PollFirstRead \/ PollSecondRead \/ PollRespond

\* The full system with a client polling the status.
SpecPoll == InitWith(MaxPollSubmits) /\ [][Next \/ PollNext]_vars

\* ------------------------------------------------- one adjust run alone
\* The run starts from a job an adjust submission has queued; the segment
\* list, the speakers and the targets range over the sets below.
Seg(s, a, b) == [speaker |-> s, start |-> a, end |-> b]

RunSegChoices ==
    { Seg("A", 0, 1000), Seg("B", 1000, 2000), Seg(NullSpeaker, 0, 1000),
      Seg("A", 1000, 1000), Seg("B", 2000, 1000) }

RECURSIVE SeqsUpTo(_, _)
SeqsUpTo(S, n) ==
    IF n = 0 THEN {<<>>}
    ELSE LET shorter == SeqsUpTo(S, n - 1)
         IN shorter \cup {Append(q, x) : q \in shorter, x \in S}

RunSegmentLists == SeqsUpTo(RunSegChoices, MaxSegs)

Sp(id, wpm, words, cs) ==
    [id |-> id, avg_wpm |-> wpm, total_words |-> words, total_duration_cs |-> cs]

RunSpeakerLists ==
    { <<Sp("Speaker_A", 100, 10, 600)>>,
      <<Sp("Speaker_A", 0, 0, 0)>>,
      <<Sp("Speaker_A", 100, 10, 600), Sp("Speaker_B", 60, 10, 1000)>> }

Tg(id, wpm) == [id |-> id, target_wpm |-> wpm]

RunTargetLists ==
    {<<Tg("Speaker_A", t)>> : t \in {-5, 0, 99, 100, 101, 102, 200}}
    \cup { <<Tg("Speaker_C", 200)>>, <<Tg("Speaker_B", 120)>>,
           <<Tg("Speaker_A", 200), Tg("Speaker_A", -5)>>,
           <<Tg("Speaker_A", -5), Tg("Speaker_A", 200)>> }

UploadedData ==
    HSet(EmptyData, Upd([originalFilename |-> Some(OriginalFilename),
                         filePath |-> Some(FilePath)]))

\* The ledger of a job whose analysis gave these speakers and segments.
AnalyzedData(speakers, segments) ==
    HSet(UploadedData,
         Upd([assemblyAiTranscriptId |-> Some("transcript-1"),
              speakers |-> Some(JSONstringify(speakers)),
              diarizationSegments |-> Some(JSONstringify(segments))]))

\* The ledger of a job whose analysis failed: no speakers, no segments.
FailedAnalysisData == HSet(UploadedData, Upd([error |-> Some(UploadFailedMsg)]))

InitRun ==
    /\ status = AdjustQueuedStatus
    /\ ledgerOk = TRUE /\ stalled = NotStalled
    /\ \E targets \in RunTargetLists :
          /\ adjustQueue = <<targets>>
          /\ \/ \E speakers \in RunSpeakerLists, segments \in RunSegmentLists :
                   data = HSet(AnalyzedData(speakers, segments), QueuedData(targets))
             \/ data = HSet(FailedAnalysisData, QueuedData(targets))
             \/ \E speakers \in RunSpeakerLists, segments \in RunSegmentLists :
                   \E garbled \in {"speakers", "diarizationSegments"} :
                      data = HSet(AnalyzedData(speakers, segments),
                                  [QueuedData(targets) EXCEPT ![garbled] = Some(Garbled)])
    /\ upPc = "done" /\ upResp = 202
    /\ analyzeQueue = 0
    /\ asrState = "completed"
    /\ aPc = "done" /\ attempts = 0 /\ aErr = None /\ aTranscript = None
    /\ submitsLeft = 0
    /\ HandlersIdle
    /\ WorkersIdle
    /\ pPc = "idle" /\ pStatus = "NONE" /\ pInfo = None
    /\ dPc = "idle" /\ dStatus = "NONE" /\ dInfo = None /\ dResp = None
    /\ FrontendIdle
    /\ tempDir = None
    /\ manifest = None
    /\ outputFiles = {}

SpecRun == InitRun /\ [][WorkerNext]_vars

\* ------------------------------------- upload and analysis on their own
NextAnalyze == UploadNext \/ AnalyzeNext \/ AsrProgress

SpecAnalyze == Init /\ [][NextAnalyze]_vars

\* The worker runs a task it has taken; the ASR collaborator finishes.
SpecAnalyzeFair ==
    Init /\ [][NextAnalyze]_vars /\ WF_vars(AnalyzeNext) /\ WF_vars(AsrProgress)

\* =============================================================== claims
StatusChain ==
    <<"PENDING", "PROCESSING_UPLOAD_CLOUD", "PROCESSING_CLOUD_ANALYSIS",
      "PROCESSING_WPM_CALCULATION", "READY_FOR_INPUT", "QUEUED_FOR_ADJUSTMENT",
      "PROCESSING_ADJUSTMENT", "PROCESSING_RECONSTRUCTION", "COMPLETE">>

ForwardStep(a, b) ==
    \E k \in 1..(Len(StatusChain) - 1) : StatusChain[k] = a /\ StatusChain[k + 1] = b

AllowedChange(a, b) ==
    \/ a = "NONE" /\ b = "PENDING"
    \/ ForwardStep(a, b)
    \/ b = "FAILED" /\ a \notin {"NONE", "COMPLETE", "FAILED"}
    \/ a = "FAILED" /\ b = "QUEUED_FOR_ADJUSTMENT"

\* C1: every change of the ledger status is one forward step of the chain,
\* a step from a non-terminal status to FAILED, or the retry step
\* FAILED -> QUEUED_FOR_ADJUSTMENT (the record's creation as PENDING aside).
C1_OnlyAllowedChanges == [][status' # status => AllowedChange(status, status')]_vars

\* C2: COMPLETE is terminal: once the status is COMPLETE no write changes it.
C2_CompleteIsTerminal == [][status = "COMPLETE" => status' = "COMPLETE"]_vars

\* C3: once the status is READY_FOR_INPUT or a later status (an adjust status,
\* COMPLETE, FAILED), no write sets it to PENDING or a PROCESSING_* analysis
\* status again.
C3_NoReturnToAnalysis ==
    [][status \notin (AnalysisStatuses \cup {"NONE"}) => status' \notin AnalysisStatuses]_vars

\* C3 witness: an adjust run has failed on a job that had been
\* READY_FOR_INPUT, after the last adjust request was sent.
C3_Witness ==
    /\ status = "FAILED" /\ HasAnalysisData(data)
    /\ data.targets # None /\ submitsLeft = 0

\* C4: a status read that returns READY_FOR_INPUT also returns the speakers
\* and diarizationSegments written with that status.
C4_ReadyReadHasData ==
    (pInfo # None /\ pInfo[1].status = "READY_FOR_INPUT") =>
        /\ HasAnalysisData(pInfo[1].data)
        /\ pInfo[1].data.speakers = data.speakers
        /\ pInfo[1].data.diarizationSegments = data.diarizationSegments

\* C4 witness: the read returned READY_FOR_INPUT although the status has
\* moved on since its first read.
C4_Witness ==
    /\ pPc = "respond" /\ pInfo # None
    /\ pInfo[1].status = "READY_FOR_INPUT" /\ status # "READY_FOR_INPUT"

\* C5: when the ASR collaborator reports status error, the analyze run ends
\* with status FAILED and the error field carrying the ASR's message.
C5_AsrErrorReported ==
    (aPc = "done" /\ asrState = "error") =>
        status = "FAILED" /\ data.error = Some(AsrFailedMsg)

PollStep == aPc = "poll" /\ attempts' # attempts

\* C6: polling makes at most maxAttempts attempts, every poll that does not
\* return the transcript consumes one, the loop is left for the failure path
\* only after maxAttempts attempts and with the timeout error, a finished
\* run has written READY_FOR_INPUT or FAILED, and no run stays in a
\* PROCESSING_* analysis status forever.
C6_PollingBounded ==
    /\ [](attempts <= maxAttempts)
    /\ [][(PollStep /\ aPc' = "poll") => attempts' = attempts + 1]_vars
    /\ [][(aPc = "poll" /\ aPc' = "fail") =>
             attempts = maxAttempts /\ aErr' = Some(TimeoutMsg)]_vars
    /\ [](aPc = "done" => status \in {"READY_FOR_INPUT", "FAILED"})
    /\ [](aPc = "done" /\ aErr = Some(TimeoutMsg) =>
             status = "FAILED" /\ data.error = Some(TimeoutMsg))
    /\ (status \in AnalysisStatuses \ {"PENDING"}) ~> (status \in {"READY_FOR_INPUT", "FAILED"})

\* C6 witness: the run ended by the timeout.
C6_Witness ==
    aPc = "done" /\ status = "FAILED" /\ data.error = Some(TimeoutMsg)

FailedAt(w, k) == ~wLog[w][k].ok

HasFailure(w) == \E k \in 1..Len(wLog[w]) : FailedAt(w, k)

\* C7: a failed command is the last command of its run (no later segment is
\* extracted or stretched, nothing is concatenated after it), the run is on
\* its failure path, and its final write is FAILED, leaving outputFilePath
\* unset.
C7_SegmentFailureIsFatal ==
    /\ [](\A w \in Workers : \A k \in 1..Len(wLog[w]) :
            FailedAt(w, k) =>
                /\ k = Len(wLog[w])
                /\ wErr[w] # None
                /\ wPc[w] \in {"cleanup", "final"})
    /\ [][\A w \in Workers :
            (wPc[w] = "final" /\ wPc'[w] = "idle" /\ HasFailure(w)) =>
                /\ status' = "FAILED"
                /\ data'.outputFilePath = None
                /\ data'.error = wErr[w]]_vars

\* C7 witness: the run has returned after the stretch of its second segment
\* failed.
C7_Witness ==
    \E w \in Workers :
        /\ wPc[w] = "final" /\ Len(wLog[w]) >= 2
        /\ wLog[w][Len(wLog[w])].cmd = "stretch"
        /\ ~wLog[w][Len(wLog[w])].ok
        /\ wLog[w][Len(wLog[w])].seg = 1

\* C8: whenever a run of processAudioAdjustment returns or throws, the
\* temporary directory with everything in it is gone at that moment.
C8_CleanupOnReturn ==
    [][\A w \in Workers :
          (wPc[w] # "final" /\ wPc'[w] = "final") =>
              tempDir' = None /\ manifest' = None]_vars

\* C8 witness: a run has returned after a failed command that had files in
\* the directory.
C8_Witness ==
    \E w \in Workers :
        /\ wPc[w] = "final" /\ HasFailure(w) /\ Len(wLog[w]) >= 2
        /\ tempDir = None

MaxOf(S) == CHOOSE k \in S : \A j \in S : j <= k

\* The factor the Tempo Resolver's contract gives.
ContractFactor(segment, speakers, targets) ==
    LET tIdx == {k \in 1..Len(targets) :
                    segment.speaker # NullSpeaker
                    /\ targets[k].id = "Speaker_" \o segment.speaker}
        sIdx == {k \in 1..Len(speakers) :
                    segment.speaker # NullSpeaker
                    /\ speakers[k].id = "Speaker_" \o segment.speaker}
    IN IF tIdx # {} /\ sIdx # {}
          /\ targets[MaxOf(tIdx)].target_wpm > 0
          /\ speakers[MaxOf(sIdx)].avg_wpm > 0
       THEN [num |-> targets[MaxOf(tIdx)].target_wpm,
             den |-> speakers[MaxOf(sIdx)].avg_wpm]
       ELSE One

\* C9: the factor resolved for a segment is target / original when the
\* segment's speaker id has a target and both WPMs are positive, else 1.0;
\* the stretching tool is given that factor; resolving raises no error (a
\* run fails only by a failed command or missing analysis data).
C9_TempoResolver ==
    \A w \in Workers :
        /\ wPc[w] \in {"extract", "stretch", "rm"} =>
              CurrentFactor(w) =
                  ContractFactor(wSegments[w][wI[w] + 1], wSpeakers[w], wTargets[w])
        /\ \A k \in 1..Len(wLog[w]) :
              wLog[w][k].cmd = "stretch" =>
                  wLog[w][k].factor =
                      ContractFactor(wSegments[w][wLog[w][k].seg + 1],
                                     wSpeakers[w], wTargets[w])
        /\ wErr[w] # None =>
              \/ HasFailure(w)
              \/ wErr[w] = Some(MissingDataMsg)
              \/ wErr[w] = Some("mkdir failed")

\* C9 witness: the stretching tool ran with the factor 200 / 100.
C9_Witness ==
    \E w \in Workers : \E k \in 1..Len(wLog[w]) :
        /\ wLog[w][k].cmd = "stretch" /\ wLog[w][k].ok
        /\ wLog[w][k].factor = [num |-> 200, den |-> 100]

\* The factor differs from 1.0 by more than 0.01.
ExceedsThreshold(f) == 100 * Abs(f.num - f.den) > f.den

\* C10: the stretching tool is invoked for a segment if and only if its
\* factor differs from 1.0 by more than 0.01; a segment whose factor is
\* within 0.01 of 1.0, bounds included, is passed through as extracted.
C10_NoOpThreshold ==
    \A w \in Workers :
        /\ \A k \in 1..Len(wLog[w]) :
              wLog[w][k].cmd = "stretch" => ExceedsThreshold(wLog[w][k].factor)
        /\ \A k \in 1..Len(wPaths[w]) :
              wPaths[w][k].kind = "input" =>
                  \E i \in 0..(Len(wSegments[w]) - 1) :
                      /\ wPaths[w][k] = tempInputPath(i)
                      /\ ~ExceedsThreshold(
                             StretchFactor(wSegments[w][i + 1], wSpeakers[w], wTargets[w]))

\* The segment indices a list of paths names, in the order of the list.
PathIndices(paths, n) ==
    [k \in 1..Len(paths) |->
        CHOOSE i \in 0..n : i = n \/ SegmentIndex(i) = paths[k].idx]

Increasing(seq) == \A j, k \in 1..Len(seq) : j < k => seq[j] < seq[k]

PositiveIndices(segments) ==
    LET Positive(i) == DurationMs(segments[i + 1]) > 0
    IN SelectSeq([k \in 1..Len(segments) |-> k - 1], Positive)

\* C12: when the concatenation is invoked, the manifest lists one file per
\* positive-duration segment, in the order of the stored segment list: the
\* stretched output of a segment that was stretched, the extracted slice of
\* one that was passed through.
C12_ManifestInSegmentOrder ==
    \A w \in Workers :
        wPc[w] = "concat" =>
            /\ manifest # None
            /\ PathIndices(manifest[1], Len(wSegments[w])) = PositiveIndices(wSegments[w])
            /\ \A k \in 1..Len(manifest[1]) :
                  manifest[1][k].kind \in {"input", "output"}

\* C12 witness: the concatenation is about to run on a manifest of a
\* stretched segment followed by a passed-through one.
C12_Witness ==
    \E w \in Workers :
        /\ wPc[w] = "concat" /\ manifest # None /\ Len(manifest[1]) = 2
        /\ manifest[1][1].kind = "output"
        /\ manifest[1][2].kind = "input"

\* ------------------------------------------- the WPM calculator alone
\* The transcript the poll returned ranges over the utterance lists below
\* (and the transcript without an utterance list); the analyze worker then
\* writes PROCESSING_WPM_CALCULATION and the READY_FOR_INPUT record.
WpmUttChoices ==
    { Utt("A", 0, 10000, TenWords),
      Utt("A", 10000, 10000, <<"x">>),
      Utt("A", 20000, 10000, <<"x">>),
      Utt("B", 0, 30000, <<" ", "x", " ", " ", "x", " ">>),
      Utt("B", 5000, 5000, <<>>),
      Utt("B", 0, 7000, <<"x">>),
      Utt("A", 0, 40000, <<"x">>),
      Utt(NullSpeaker, 0, 5000, TenWords) }

WpmTranscripts == {None} \cup {Some(q) : q \in SeqsUpTo(WpmUttChoices, MaxUtts)}

InitWpm ==
    /\ status = "PROCESSING_CLOUD_ANALYSIS"
    /\ data = UploadedData
    /\ ledgerOk = TRUE /\ stalled = NotStalled
    /\ upPc = "done" /\ upResp = 202
    /\ analyzeQueue = 0
    /\ adjustQueue = <<>>
    /\ asrState = "completed"
    /\ aPc = "status3" /\ attempts = 0 /\ aErr = None
    /\ aTranscript \in WpmTranscripts
    /\ submitsLeft = 0
    /\ HandlersIdle
    /\ WorkersIdle
    /\ pPc = "idle" /\ pStatus = "NONE" /\ pInfo = None
    /\ dPc = "idle" /\ dStatus = "NONE" /\ dInfo = None /\ dResp = None
    /\ FrontendIdle
    /\ tempDir = None
    /\ manifest = None
    /\ outputFiles = {}

SpecWpm == InitWpm /\ [][AnalyzeStatusWpm \/ AnalyzeReady]_vars

\* The utterances of a transcript (none when the list is missing).
UtterancesOf(transcript) == IF transcript = None THEN <<>> ELSE transcript[1]

\* The labels of the utterances that have a speaker.
SpokenLabels(utts) == {utts[k].speaker : k \in 1..Len(utts)} \ {NullSpeaker}

RECURSIVE SumDuration(_, _)
SumDuration(utts, label) ==
    IF utts = <<>> THEN 0
    ELSE (IF Head(utts).speaker = label THEN Head(utts).end - Head(utts).start ELSE 0)
         + SumDuration(Tail(utts), label)

RECURSIVE SumWords(_, _)
SumWords(utts, label) ==
    IF utts = <<>> THEN 0
    ELSE (IF Head(utts).speaker = label THEN WordCount(Head(utts).text) ELSE 0)
         + SumWords(Tail(utts), label)

C14_AcceptedIffAllowed ==
    [][\A h \in Handlers :
          /\ (hPc[h] = "body" /\ hPc'[h] = "enqueue") =>
                /\ AdjustAllowed(status)
                /\ status' = "QUEUED_FOR_ADJUSTMENT"
                /\ data'.targets = Some(JSONstringify(hTargets'[h]))
          /\ (hPc[h] = "enqueue" /\ adjustQueue' # adjustQueue) =>
                adjustQueue' = Append(adjustQueue, hTargets[h])
          /\ (hPc[h] = "readData" /\ hPc'[h] = "idle") =>
                /\ ~AdjustAllowed(hStatus[h])
                /\ UNCHANGED <<status, data, adjustQueue>>
          /\ (hPc[h] = "readData" /\ hPc'[h] = "body") => AdjustAllowed(hStatus[h])]_vars

\* A ledger field that carries no value: absent or the empty text.
NoValue(field) == field = None \/ field = Some("")

\* C15: the write of an accepted resubmission on a FAILED job leaves the
\* error field without a value (absent or empty).
C15_ResubmitClearsError ==
    [][\A h \in Handlers :
          (hStatus[h] = "FAILED" /\ hPc[h] = "body" /\ hPc'[h] = "enqueue") =>
              NoValue(data'.error)]_vars

\* What the upload and the analyze run stored about the job.
AnalysisArtifacts(hash) ==
    <<hash.speakers, hash.diarizationSegments, hash.filePath, hash.originalFilename>>

\* C16: no step of handleAdjust or of an adjust worker changes speakers,
\* diarizationSegments, filePath or originalFilename, and once the job has
\* left the analysis statuses these fields never change again.
C16_RetryKeepsArtifacts ==
    /\ [][(HandlerNext \/ WorkerNext) =>
            AnalysisArtifacts(data') = AnalysisArtifacts(data)]_vars
    /\ [][status \notin (AnalysisStatuses \cup {"NONE"}) =>
            AnalysisArtifacts(data') = AnalysisArtifacts(data)]_vars

\* C16 witness: a resubmission on a job whose adjust run failed has been
\* written, the analysis results still in the record.
C16_Witness ==
    \E h \in Handlers :
        /\ hStatus[h] = "FAILED" /\ hPc[h] = "enqueue"
        /\ status = "QUEUED_FOR_ADJUSTMENT"
        /\ HasAnalysisData(data)
        /\ data.filePath = Some(FilePath) /\ data.originalFilename = Some(OriginalFilename)

\* The worker slots that are running processAdjustJob for the job.
ActiveRuns == {w \in Workers : wPc[w] # "idle"}

\* C17: at most one adjust run is processing the job at any time.
C17_OneRunPerJob == Cardinality(ActiveRuns) <= 1

\* ------------------------------------------ the system with Redis faults
\* Redis starts or stops refusing the ledger's transactions (a reply error
\* to EXEC, as when the server is read-only or cannot persist).
LedgerFault ==
    /\ ledgerOk' = ~ledgerOk
    /\ UNCHANGED <<status, data, stalled, uploadVars, analyzeQueue, adjustQueue, asrVars,
                   analyzeVars, handlerVars, workerVars, pollVars, fsVars>>

\* The analyze worker's Redis connection emits error while a task is being
\* processed: the listener calls process.exit(1).
AnalyzeWorkerExit ==
    /\ aPc \notin {"idle", "done", "exited"}
    /\ aPc' = "exited"
    /\ UNCHANGED <<ledgerVars, analyzeQueue, asrVars, attempts, aErr, aTranscript,
                   AnalyzeFrame>>

\* The same listener of the adjust worker: the process, with both of its
\* slots, exits; nothing of the runs' finally or catch blocks is executed.
AdjustWorkerExit ==
    /\ \E w \in Workers : wPc[w] \notin {"idle", "exited"}
    /\ wPc' = [w \in Workers |-> "exited"]
    /\ UNCHANGED <<ledgerVars, adjustQueue, wTargets, wSpeakers, wSegments, wI, wPaths,
                   wErr, wLog, fsVars, WorkerFrame>>

SpecFault ==
    InitWith(MaxFaultSubmits)
        /\ [][Next \/ LedgerFault \/ AnalyzeWorkerExit \/ AdjustWorkerExit]_vars

\* The position each coordinator is at after a ledger write.
AfterAnalyzeWrite ==
    [status1 |-> "upload", status2 |-> "submit", status3 |-> "ready",
     ready |-> "done", fail |-> "done"]

AfterAdjustWrite ==
    [statusAdjust |-> "getData", statusRecon |-> "manifest", final |-> "idle"]

\* C18: while Redis refuses the transaction, a write of updateJobStatus
\* leaves the status and the data exactly as they were (nothing is applied
\* in part), and the coordinator that made it goes on to the step that
\* follows the write.
C18_FailedWriteKeepsLedger ==
    /\ [][~ledgerOk => (status' = status /\ data' = data)]_vars
    /\ [][(~ledgerOk /\ aPc \in DOMAIN AfterAnalyzeWrite /\ aPc' \notin {aPc, "exited"}) =>
             aPc' = AfterAnalyzeWrite[aPc]]_vars
    /\ [][\A w \in Workers :
             (~ledgerOk /\ wPc[w] \in DOMAIN AfterAdjustWrite
                /\ wPc'[w] \notin {wPc[w], "exited"}) =>
                 wPc'[w] = AfterAdjustWrite[wPc[w]]]_vars
    /\ [](~ledgerOk =>
             /\ aPc = "status1" => ENABLED AnalyzeStatusUpload
             /\ aPc = "status2" => ENABLED AnalyzeStatusCloud
             /\ aPc = "status3" => ENABLED AnalyzeStatusWpm
             /\ aPc = "ready" => ENABLED AnalyzeReady
             /\ aPc = "fail" => ENABLED AnalyzeFail
             /\ \A w \in Workers :
                   /\ wPc[w] = "statusAdjust" => ENABLED WorkerStatusAdjust(w)
                   /\ wPc[w] = "statusRecon" => ENABLED WorkerStatusRecon(w)
                   /\ wPc[w] = "final" => ENABLED WorkerFinal(w))

\* C18 witness: the analyze run has finished although its READY_FOR_INPUT
\* write was refused; the record is as the write before it left it.
C18_Witness ==
    /\ aPc = "done" /\ aTranscript # None /\ aErr = None
    /\ status = "PROCESSING_WPM_CALCULATION"
    /\ ~HasAnalysisData(data)

\* C19: no failure while the job is processed ends a worker process, and
\* an analyze run that ended on a failure has left the job FAILED.
C19_WorkersSurviveFailures ==
    /\ aPc # "exited"
    /\ \A w \in Workers : wPc[w] # "exited"
    /\ (aPc = "done" /\ aErr # None) => status = "FAILED"

\* C20: when handleUpload has answered with an error, the ledger holds no
\* record of the job.
C20_UploadErrorLeavesNoRecord ==
    (upPc = "done" /\ upResp # 202) => (status = "NONE" /\ data = EmptyData)

\* ---------------------------------------------------------------------
\* Process restarts.  Neither worker reads the ledger when it starts
\* (worker-analyze.ts 314-357, worker-adjust.ts 231-274): a new process only
\* waits for tasks of its queue.  What its predecessor held in memory is gone.
\* The task that was active when the process stopped is the broker's to
\* return: it puts a stalled task back on the queue once, and on finding the
\* same task stalled again it fails the task, which the worker's 'failed'
\* listener only logs.  The specification has one task per queue.

AnalyzeWorkerRestart ==
    /\ aPc = "exited"
    /\ aPc' = "idle" /\ attempts' = 0 /\ aErr' = None /\ aTranscript' = None
    /\ analyzeQueue' = IF stalled["analyze"] THEN analyzeQueue ELSE analyzeQueue + 1
    /\ stalled' = [stalled EXCEPT !["analyze"] = TRUE]
    /\ UNCHANGED <<status, data, ledgerOk, asrVars, AnalyzeFrame>>

AdjustWorkerRestart ==
    /\ wPc = [w \in Workers |-> "exited"]
    /\ wPc' = [w \in Workers |-> "idle"]
    /\ wTargets' = [w \in Workers |-> <<>>]
    /\ wSpeakers' = [w \in Workers |-> <<>>]
    /\ wSegments' = [w \in Workers |-> <<>>]
    /\ wI' = [w \in Workers |-> 0]
    /\ wPaths' = [w \in Workers |-> <<>>]
    /\ wErr' = [w \in Workers |-> None]
    /\ wLog' = [w \in Workers |-> <<>>]
    /\ LET SlotTask(w) == IF wTargets[w] = <<>> THEN <<>> ELSE <<wTargets[w]>>
       IN adjustQueue' = IF stalled["adjust"] THEN adjustQueue
                         ELSE adjustQueue \o SlotTask("w1") \o SlotTask("w2")
    /\ stalled' = [stalled EXCEPT !["adjust"] = TRUE]
    /\ UNCHANGED <<status, data, ledgerOk, fsVars, WorkerFrame>>

SpecRestart ==
    InitWith(MaxFaultSubmits) /\ [][\/ Next
                    \/ AnalyzeWorkerExit \/ AdjustWorkerExit
                    \/ AnalyzeWorkerRestart \/ AdjustWorkerRestart]_vars

ProcessingStatuses ==
    {"PROCESSING_UPLOAD_CLOUD", "PROCESSING_CLOUD_ANALYSIS", "PROCESSING_WPM_CALCULATION",
     "PROCESSING_ADJUSTMENT", "PROCESSING_RECONSTRUCTION"}

\* Nothing is running and nothing waits: no request is in progress, both
\* queues are empty, both workers are up and wait for tasks.  From here the only
\* steps left are adjust submissions.
Quiescent ==
    /\ upPc = "done"
    /\ analyzeQueue = 0 /\ adjustQueue = <<>>
    /\ aPc \in {"idle", "done"}
    /\ wPc = [w \in Workers |-> "idle"]
    /\ hPc = [h \in Handlers |-> "idle"]

\* C21: a job whose worker stopped and was restarted can still reach COMPLETE
\* or FAILED: it is never at rest (workers up and idle, queues empty, no request
\* in progress) with a PROCESSING_* status in the ledger, a status under which
\* every adjust submission is rejected and which nothing then changes.
C21_RestartResumesFromLedger == Quiescent => status \notin ProcessingStatuses

\* ---------------------------------------------------------------------
\* End-to-end scenario 1.
Scenario1 == Some(<<Utt("A", 0, 10000, TenWords), Utt("B", 10000, 20000, TenWords)>>)
Scenario1Targets == <<[id |-> "Speaker_A", target_wpm |-> 120]>>

\* The run of slot w has the scenario's inputs and has left the segment loop
\* without an error.
Scenario1Run(w) ==
    /\ wSegments[w] = BuildSegments(Scenario1)
    /\ wTargets[w] = Scenario1Targets
    /\ wPc[w] \in {"statusRecon", "manifest", "concat"}
    /\ wErr[w] = None

\* The commands the segment loop of the scenario issues: A's slice is
\* extracted, stretched with 120 / 60 and its input removed; B's slice is
\* only extracted.
Scenario1Commands ==
    <<LogEntry("extract", 0, One, TRUE),
      LogEntry("stretch", 0, [num |-> 120, den |-> 60], TRUE),
      LogEntry("rm", 0, One, TRUE),
      LogEntry("extract", 1, One, TRUE)>>

Scenario1Paths == <<tempOutputPath(0), tempInputPath(1)>>

Scenario1Analysed ==
    data.diarizationSegments = Some(JSONstringify(BuildSegments(Scenario1)))

Scenario1State ==
    /\ Scenario1Analysed =>
          /\ data.speakers # None
          /\ LET speakers == JSONparse(data.speakers[1])
             IN /\ [k \in 1..Len(speakers) |-> speakers[k].id]
                       = <<"Speaker_A", "Speaker_B">>
                /\ \A k \in 1..Len(speakers) : speakers[k].avg_wpm = 60
    /\ \A w \in Workers : Scenario1Run(w) =>
          /\ SubSeq(wLog[w], 1, 4) = Scenario1Commands
          /\ wLog[w][2].factor.num = 2 * wLog[w][2].factor.den
          /\ StretchFactor(wSegments[w][2], wSpeakers[w], wTargets[w]) = One
          /\ wPaths[w] = Scenario1Paths

Scenario1Manifest ==
    \A w \in Workers :
        Scenario1Run(w) /\ wPc[w] = "manifest" /\ wPc'[w] = "concat"
            => manifest' = Some(Scenario1Paths)

\* C22: in scenario 1 (A and B each speak ten words in ten seconds, target
\* A = 120) the analysis stores 60 WPM for Speaker_A and Speaker_B, the adjust
\* run stretches A's segment with factor 2 and passes B's segment through
\* with factor 1, and the concat list it writes names A's stretched file and
\* then B's extracted file.
C22_ScenarioOne == [](Scenario1State) /\ [][Scenario1Manifest]_vars

\* C22: a run of the scenario has written its concat list.
C22_Witness ==
    \E w \in Workers :
        /\ Scenario1Run(w) /\ wPc[w] = "concat"
        /\ Scenario1Analysed
        /\ manifest = Some(Scenario1Paths)

\* ---------------------------------------------------------------------
\* Idempotence of the adjust plan, by comparing the two runs the two slots
\* of the worker make.

\* Both slots run a task and have read the ledger, and their inputs are the
\* same: targets from the payload, speakers and segments from the ledger.
SameInputs(v, w) ==
    /\ wPc[v] \notin {"idle", "mkdir", "statusAdjust", "getData"}
    /\ wPc[w] \notin {"idle", "mkdir", "statusAdjust", "getData"}
    /\ wErr[v] # Some(MissingDataMsg) /\ wErr[w] # Some(MissingDataMsg)
    /\ wTargets[v] = wTargets[w]
    /\ wSpeakers[v] = wSpeakers[w]
    /\ wSegments[v] = wSegments[w]

\* A command as issued: the tool, the segment (which fixes the extraction
\* window and both file names) and the tempo factor.
Issued(entry) == <<entry.cmd, entry.seg, entry.factor>>

Min(a, b) == IF a < b THEN a ELSE b

LoopDone(w) == wPc[w] \in {"statusRecon", "manifest", "concat"} /\ wErr[w] = None

ReadsLedger(w) == wPc[w] = "getData" /\ wPc'[w] # "getData"

LedgerReadStep(w) ==
    /\ wPc[w] # "getData" /\ wPc'[w] = "getData" => wPc[w] = "statusAdjust"
    /\ ReadsLedger(w) =>
          IF /\ data.speakers # None /\ data.diarizationSegments # None
             /\ Parses(data.speakers[1]) /\ Parses(data.diarizationSegments[1])
          THEN /\ wSpeakers'[w] = JSONparse(data.speakers[1])
               /\ wSegments'[w] = JSONparse(data.diarizationSegments[1])
               /\ wErr'[w] = None
          ELSE /\ wErr'[w] = Some(MissingDataMsg)
               /\ wPc'[w] = "cleanup"
    /\ wPc[w] \notin {"getData", "final"} =>
          wSpeakers'[w] = wSpeakers[w] /\ wSegments'[w] = wSegments[w]
    /\ wPc[w] = "final" /\ wErr[w] = Some(MissingDataMsg) /\ wPc'[w] = "idle" =>
          status' = "FAILED"

\* No command has been issued by a run that found no analysis data.
NoToolWithoutData ==
    \A w \in Workers : wErr[w] = Some(MissingDataMsg) => wLog[w] = <<>>

\* C24: the adjust run reads speakers and diarizationSegments from the
\* ledger, in the step after its PROCESSING_ADJUSTMENT write, and works with
\* exactly the values read until it ends; when a field is missing or is not
\* JSON, the run issues no command and ends with the job FAILED.
C24_AnalysisDataFromLedger ==
    [](NoToolWithoutData) /\ [][\A w \in Workers : LedgerReadStep(w)]_vars

\* C24: a run over a ledger whose analysis field is not JSON has ended: the
\* job is FAILED and nothing was produced.
C24_Witness ==
    /\ status = "FAILED"
    /\ HasAnalysisData(data) /\ getJobAnalysisData(data) = None
    /\ data.error = Some(MissingDataMsg)
    /\ wPc = [w \in Workers |-> "idle"]
    /\ outputFiles = {}

\* ---------------------------------------------------------------------
\* handleDownload: getJobInfo (two reads, as in handleStatus), then the
\* checks, then the response.

DownloadFrame ==
    <<ledgerVars, uploadVars, analyzeQueue, adjustQueue, asrVars, analyzeVars,
      handlerVars, workerVars, fsVars, pPc, pStatus, pInfo>>

\* A gate that looks at the stored path only.
PathIsEnough(st) == TRUE

\* jobInfo.status !== 'COMPLETE' answers 409.
DownloadAllowed(st) == st = "COMPLETE"

\* The response of handleDownload for the job info read and the files that
\* exist when file.exists() is awaited.
DownloadResponse(info, files) ==
    LET ErrorResponse(code) == [code |-> code, file |-> None]
    IN
    IF info = None THEN ErrorResponse(404)
    ELSE IF ~DownloadAllowed(info[1].status) THEN ErrorResponse(409)
    ELSE IF info[1].data.outputFilePath = None THEN ErrorResponse(500)
    ELSE IF info[1].data.outputFilePath[1] \notin files THEN ErrorResponse(404)
    ELSE [code |-> 200, file |-> info[1].data.outputFilePath]

\* A request arrives: first HGETALL of getJobInfo (the status hash).
DownloadFirstRead ==
    /\ dPc = "idle"
    /\ dStatus' = status
    /\ dInfo' = None /\ dResp' = None
    /\ dPc' = "second"
    /\ UNCHANGED <<DownloadFrame, app, progress, requests>>

\* Second HGETALL of getJobInfo (the data hash).
DownloadSecondRead ==
    /\ dPc = "second"
    /\ dInfo' = JobInfo(dStatus, data)
    /\ dStatus' = "NONE"
    /\ dPc' = "respond"
    /\ UNCHANGED <<dResp, DownloadFrame, app, progress, requests>>

\* The checks and the response; the job info read stays with the response.
DownloadRespond ==
    /\ dPc = "respond"
    /\ dResp' = Some(DownloadResponse(dInfo, outputFiles))
    /\ dPc' = "idle"
    /\ UNCHANGED <<dStatus, dInfo, DownloadFrame, app, progress, requests>>

DownloadNext == DownloadFirstRead \/ DownloadSecondRead \/ DownloadRespond

\* The full system with a client requesting the download.
SpecDownload == Init /\ [][Next \/ DownloadNext]_vars

\* C25: handleDownload serves a file only when the job info it read has
\* status COMPLETE and an outputFilePath, and the file served is that path;
\* for a job read in any other status, or not found, it answers with an error
\* code and no file.
C25_DownloadGate ==
    dResp # None =>
        /\ dResp[1].file # None =>
              /\ dInfo # None
              /\ dInfo[1].status = "COMPLETE"
              /\ dInfo[1].data.outputFilePath = dResp[1].file
              /\ dResp[1].code = 200
        /\ (dInfo = None \/ dInfo[1].status # "COMPLETE") =>
              /\ dResp[1].file = None
              /\ dResp[1].code \in {404, 409}

\* C25: a file has been served for a job read as COMPLETE.
C25_Witness ==
    /\ dResp # None /\ dResp[1].file = Some(FinalOutputPath)
    /\ dInfo # None /\ dInfo[1].status = "COMPLETE"

\* C26: the diarizationSegments written with READY_FOR_INPUT are the
\* utterances projected one to one: as many segments as utterances, in the
\* same order, each with the utterance's speaker label (the null label
\* included) and its start and end unchanged, and nothing else.
C26_TimelineIsProjection ==
    (aPc = "done" /\ status = "READY_FOR_INPUT") =>
        LET utts == UtterancesOf(aTranscript)
            segments == JSONparse(data.diarizationSegments[1])
        IN /\ Len(segments) = Len(utts)
           /\ \A k \in 1..Len(utts) :
                 /\ DOMAIN segments[k] = {"speaker", "start", "end"}
                 /\ segments[k].speaker = utts[k].speaker
                 /\ segments[k].start = utts[k].start
                 /\ segments[k].end = utts[k].end

\* C26: the timeline of three utterances, the second without a speaker and
\* the third ending before it starts.
C26_Witness ==
    /\ aPc = "done" /\ status = "READY_FOR_INPUT"
    /\ aTranscript = Some(<<Utt("A", 0, 10000, TenWords),
                            Utt(NullSpeaker, 0, 5000, TenWords),
                            Utt("A", 20000, 10000, <<"x">>)>>)
    /\ Len(JSONparse(data.diarizationSegments[1])) = 3

\* The entry calculateWPM reports for the label.
EntryOf(result, label) ==
    result[CHOOSE k \in 1..Len(result) : result[k].id = "Speaker_" \o label]

\* C27: for every speaker whose durations sum to a positive number of
\* milliseconds, avg_wpm is the integer nearest to
\* wordCount / (durationMs / 1000 / 60), that is to 60000 * wordCount /
\* durationMs, with wordCount the sum of the utterances' token counts and
\* durationMs the sum of their (end - start).
C27_AvgWpmIsRounded ==
    (aPc = "done" /\ status = "READY_FOR_INPUT") =>
        LET utts == UtterancesOf(aTranscript)
            result == JSONparse(data.speakers[1])
        IN \A l \in SpokenLabels(utts) :
              SumDuration(utts, l) > 0 =>
                 2 * Abs(EntryOf(result, l).avg_wpm * SumDuration(utts, l)
                         - 60000 * SumWords(utts, l)) <= SumDuration(utts, l)

\* C27: one word in 7000 ms is reported as 9 WPM (8.57) and one word in
\* 40000 ms as 2 WPM (1.5, a tie).
C27_Witness ==
    /\ aPc = "done" /\ status = "READY_FOR_INPUT"
    /\ aTranscript = Some(<<Utt("B", 0, 7000, <<"x">>), Utt("A", 0, 40000, <<"x">>)>>)
    /\ EntryOf(JSONparse(data.speakers[1]), "B").avg_wpm = 9
    /\ EntryOf(JSONparse(data.speakers[1]), "A").avg_wpm = 2

\* C28: every entry reports the label's total word count and total
\* duration (in hundredths of a second, the two decimals the entry keeps),
\* also when the label's durations sum to zero or its words to zero.
C28_TotalsReported ==
    (aPc = "done" /\ status = "READY_FOR_INPUT") =>
        LET utts == UtterancesOf(aTranscript)
            result == JSONparse(data.speakers[1])
        IN \A l \in SpokenLabels(utts) :
              /\ EntryOf(result, l).total_words = SumWords(utts, l)
              /\ 10 * EntryOf(result, l).total_duration_cs = SumDuration(utts, l)

\* ---------------------------------------------------------------------
\* Order of the steps of one adjust run.

\* Segment i of the run has been extracted and, where its factor asks for
\* it, stretched, both without error.
SegmentDone(w, i) ==
    /\ \E k \in 1..Len(wLog[w]) : wLog[w][k] = LogEntry("extract", i, One, TRUE)
    /\ NeedsStretch(StretchFactor(wSegments[w][i + 1], wSpeakers[w], wTargets[w])) =>
          \E k \in 1..Len(wLog[w]) :
              /\ wLog[w][k].cmd = "stretch" /\ wLog[w][k].seg = i /\ wLog[w][k].ok

AllSegmentsDone(w) ==
    /\ \A i \in 0..(Len(wSegments[w]) - 1) :
          DurationMs(wSegments[w][i + 1]) > 0 => SegmentDone(w, i)
    /\ \A k \in 1..Len(wLog[w]) :
          wLog[w][k].cmd \in {"extract", "stretch"} => wLog[w][k].ok

ReconstructionInOrder ==
    \A w \in Workers :
        (\/ wPc[w] \in {"manifest", "concat"}
         \/ \E k \in 1..Len(wLog[w]) : wLog[w][k].cmd \in {"manifest", "concat"})
            => AllSegmentsDone(w)

StatusInOrder ==
    /\ (status # "PROCESSING_RECONSTRUCTION" /\ status' = "PROCESSING_RECONSTRUCTION") =>
          \E w \in Workers : wPc[w] = "statusRecon" /\ AllSegmentsDone(w)
    /\ (status # "COMPLETE" /\ status' = "COMPLETE") =>
          /\ \E w \in Workers :
                /\ wPc[w] = "final" /\ wLog[w] # <<>>
                /\ wLog[w][Len(wLog[w])] = LogEntry("concat", Len(wSegments[w]), One, TRUE)
                /\ AllSegmentsDone(w)
          /\ tempDir = None
          /\ data'.outputFilePath = Some(FinalOutputPath)
          /\ FinalOutputPath \in outputFiles

\* C29: within an adjust run PROCESSING_RECONSTRUCTION is written, the
\* concat list is written and the concatenation is invoked only after every
\* segment of positive duration was extracted and, where required,
\* stretched, all without error; COMPLETE with outputFilePath is written
\* only after the concatenation succeeded and the temporary directory was
\* removed.
C29_ReconstructionAfterSegments == [](ReconstructionInOrder) /\ [][StatusInOrder]_vars

\* C29: a run over two segments of positive duration, one of them
\* stretched, has ended with COMPLETE.
C29_Witness ==
    /\ status = "COMPLETE" /\ data.outputFilePath = Some(FinalOutputPath)
    /\ tempDir = None /\ FinalOutputPath \in outputFiles
    /\ wPc = [w \in Workers |-> "idle"]
    /\ LET segments == JSONparse(data.diarizationSegments[1])
       IN /\ Len(segments) = 2
          /\ \A k \in 1..2 : DurationMs(segments[k]) > 0
          /\ \E k \in 1..2 :
                NeedsStretch(StretchFactor(segments[k], JSONparse(data.speakers[1]),
                                           JSONparse(data.targets[1])))

\* ---------------------------------------------------------------------
\* The names of the temporary artifacts, on their own: each slot of the
\* worker runs a task whose payload names a job, and is at some index of its
\* segment loop.

\* Job ids are uuidv4() values: single path components, no separators.
JobIds == {"0b1e6c1e-job-a", "0b1e6c1e-job-b", "7d44a0f2-job-a"}

\* Loop indices on both sides of the four-digit padding.
IndexChoices == {0, 1, 10, 999, 1000, 9999, 10000, 10001, 19999, 100000}

\* path.join(TEMP_DIR_BASE, jobId), as the list of its components.
TempDirPath(jobId) == <<"temp_adjust", jobId>>

\* path.join(tempDir, segment_<index>_input.wav) and ..._output.wav
SegmentFilePaths(dir, i) == <<dir \o <<tempInputPath(i)>>, dir \o <<tempOutputPath(i)>>>>

\* Names of uploaded files (File.name), as stem and extension.
OriginalFilenames ==
    {[name |-> "talk", ext |-> ".mp3"], [name |-> "talk", ext |-> ".wav"],
     [name |-> "interview", ext |-> ".mp3"]}

\* path.join(OUTPUT_DIR, path.parse(originalFilename).name + "_normalized.mp3")
finalOutputPath(originalFilename) == <<"output", originalFilename.name \o "_normalized.mp3">>

InitNames ==
    /\ status = "PROCESSING_ADJUSTMENT"
    /\ data = UploadedData
    /\ ledgerOk = TRUE /\ stalled = NotStalled
    /\ upPc = "done" /\ upResp = 202
    /\ analyzeQueue = 0
    /\ adjustQueue = <<>>
    /\ asrState = "completed"
    /\ aPc = "done" /\ attempts = 0 /\ aErr = None /\ aTranscript = None
    /\ submitsLeft = 0
    /\ HandlersIdle
    /\ wPc = [w \in Workers |-> "extract"]
    /\ wTargets \in [Workers -> {[jobId |-> j, originalFilename |-> f] :
                                    j \in JobIds, f \in OriginalFilenames}]
    /\ wI \in [Workers -> IndexChoices]
    /\ wSpeakers = [w \in Workers |-> <<>>]
    /\ wSegments = [w \in Workers |-> <<>>]
    /\ wPaths = [w \in Workers |-> <<>>]
    /\ wErr = [w \in Workers |-> None]
    /\ wLog = [w \in Workers |-> <<>>]
    /\ pPc = "idle" /\ pStatus = "NONE" /\ pInfo = None
    /\ dPc = "idle" /\ dStatus = "NONE" /\ dInfo = None /\ dResp = None
    /\ FrontendIdle
    /\ tempDir = None
    /\ manifest = None
    /\ outputFiles = {}

\* The slot builds its directory path, the two file paths of the index it
\* is at, and the path of its final output.
NameTempFiles(w) ==
    /\ wPc[w] = "extract"
    /\ LET dir == TempDirPath(wTargets[w].jobId)
       IN wPaths' = [wPaths EXCEPT ![w] =
                        <<dir>> \o SegmentFilePaths(dir, wI[w])
                        \o <<finalOutputPath(wTargets[w].originalFilename)>>]
    /\ wPc' = [wPc EXCEPT ![w] = "named"]
    /\ UNCHANGED <<ledgerVars, adjustQueue, wTargets, wSpeakers, wSegments, wI, wErr, wLog,
                   fsVars, WorkerFrame>>

SpecNames == InitNames /\ [][\E w \in Workers : NameTempFiles(w)]_vars

\* The path lies in the directory or below it.
InDir(file, dir) == Len(file) > Len(dir) /\ SubSeq(file, 1, Len(dir)) = dir

\* C30: temporary artifacts never collide. The input and the output file of
\* one index differ; within one job the files of two different indices are all
\* different, whatever the indices (10000 and above included); the
\* directories of two different job ids differ, neither lies in the other,
\* and no file of one job lies in the directory of the other.
C30_NoTempCollision ==
    \A v, w \in Workers :
        (wPc[v] = "named" /\ wPc[w] = "named") =>
            LET files(u) == {wPaths[u][2], wPaths[u][3]}
                dir(u) == wPaths[u][1]
            IN /\ wPaths[v][2] # wPaths[v][3]
               /\ \A f \in files(v) : InDir(f, dir(v))
               /\ (wTargets[v].jobId = wTargets[w].jobId /\ wI[v] # wI[w]) =>
                     files(v) \cap files(w) = {}
               /\ wTargets[v].jobId # wTargets[w].jobId =>
                     /\ dir(v) # dir(w)
                     /\ ~InDir(dir(v), dir(w))
                     /\ \A f \in files(v) : ~InDir(f, dir(w))

\* C30: two runs of one job have named the files of index 0 and of index
\* 10000.
C30_Witness ==
    /\ wPc = [w \in Workers |-> "named"]
    /\ wTargets["w1"].jobId = wTargets["w2"].jobId
    /\ wI["w1"] = 0 /\ wI["w2"] = 10000
    /\ wPaths["w1"][2] # wPaths["w2"][2]

\* ---------------------------------------------------------------------
\* The files of one run's segments.
PathSet(paths) == {paths[k] : k \in 1..Len(paths)}

SegmentFilesKept(w) ==
    /\ \A k \in 1..Len(wLog[w]) :
          LET e == wLog[w][k]
          IN /\ (e.cmd = "stretch" /\ e.ok) =>
                   /\ tempOutputPath(e.seg) \in PathSet(wPaths[w])
                   /\ tempInputPath(e.seg) \notin PathSet(wPaths[w])
                   /\ k < Len(wLog[w]) => wLog[w][k + 1] = LogEntry("rm", e.seg, One, TRUE)
                   /\ k = Len(wLog[w]) => wPc[w] = "rm"
             /\ e.cmd = "rm" =>
                   /\ k > 1 /\ wLog[w][k - 1].cmd = "stretch"
                   /\ wLog[w][k - 1].seg = e.seg /\ wLog[w][k - 1].ok
                   /\ tempDir # None => tempInputPath(e.seg) \notin tempDir[1]
    /\ wPc[w] \in {"extract", "stretch", "rm", "statusRecon", "manifest", "concat"} =>
          \A p \in PathSet(wPaths[w]) : tempDir # None /\ p \in tempDir[1]
    /\ wPc[w] = "concat" => manifest = Some(wPaths[w]) /\ ManifestReadable

\* C31: the entry listed for a stretched segment is the stretch tool's
\* output, not the extracted slice; the slice is deleted right after the
\* successful stretch, before the next segment; the slice of a segment passed
\* through stays until the concatenation; so every file the manifest names
\* exists when the concatenation is invoked.
C31_ManifestFilesExist == \A w \in Workers : SegmentFilesKept(w)

\* ---------------------------------------------------------------------
\* Ownership of the temporary files.

\* The file a successful command writes.
Written(e) ==
    IF e.cmd = "extract" THEN {tempInputPath(e.seg)}
    ELSE IF e.cmd = "stretch" THEN {tempOutputPath(e.seg)}
    ELSE IF e.cmd = "manifest" THEN {concatFilePath}
    ELSE {}

\* The files the run of slot v has created so far.
Created(v) == UNION {IF wLog[v][k].ok THEN Written(wLog[v][k]) ELSE {} : k \in 1..Len(wLog[v])}

FilesIn(dir) == IF dir = None THEN {} ELSE dir[1]

\* The run of slot v is between the creation of its directory and its
\* final cleanup.
OwnsDirectory(v) ==
    wPc[v] \in {"statusAdjust", "getData", "extract", "stretch", "rm", "statusRecon",
                "manifest", "concat", "cleanup"}

\* A step of slot w deletes a file that the run of slot v created and still
\* has in the directory, or overwrites it (rubberband and fs.writeFile
\* replace an existing file without asking).
ForeignTouch(w, v) ==
    /\ wPc'[w] # wPc[w] /\ OwnsDirectory(v)
    /\ \E f \in Created(v) \cap FilesIn(tempDir) :
          \/ f \notin FilesIn(tempDir')
          \/ /\ Len(wLog'[w]) > Len(wLog[w])
             /\ wLog'[w][Len(wLog'[w])].ok
             /\ wLog'[w][Len(wLog'[w])].cmd \in {"stretch", "manifest"}
             /\ f \in Written(wLog'[w][Len(wLog'[w])])

\* C32: while an adjust run is between creating its temporary directory and
\* its final cleanup, no other run deletes or overwrites a file that run
\* created.
C32_TempFilesExclusive ==
    [][\A w, v \in Workers : w # v => ~ForeignTouch(w, v)]_vars

\* C33: in every ledger state the status and the data agree: COMPLETE
\* implies outputFilePath is set; FAILED implies error holds a non-empty
\* message; QUEUED_FOR_ADJUSTMENT, PROCESSING_ADJUSTMENT and
\* PROCESSING_RECONSTRUCTION imply targets is set; outputFilePath is set only
\* when the status is COMPLETE.
C33_StatusAndDataAgree ==
    /\ status = "COMPLETE" => data.outputFilePath # None
    /\ status = "FAILED" => data.error # None /\ data.error \notin {Some(""), Some("null")}
    /\ status \in {"QUEUED_FOR_ADJUSTMENT", "PROCESSING_ADJUSTMENT",
                   "PROCESSING_RECONSTRUCTION"} => data.targets # None
    /\ data.outputFilePath # None => status = "COMPLETE"

\* C34: a status read (getJobInfo's two reads) that returns FAILED returns
\* with it the failure message recorded with that FAILED status: the error
\* field is a message, not absent, empty or the text null, and after a failed
\* analysis no targets of a later submission are returned.
C34_FailedReadHasMessage ==
    (pInfo # None /\ pInfo[1].status = "FAILED") =>
        /\ pInfo[1].data.error # None
        /\ pInfo[1].data.error \notin {Some(""), Some("null")}
        /\ ~HasAnalysisData(pInfo[1].data) => pInfo[1].data.targets = None

\* C35: whenever the status is QUEUED_FOR_ADJUSTMENT the ledger holds the
\* analysis results, speakers and diarizationSegments: a submission is
\* accepted only for a job that was analysed, also when the job is FAILED.
C35_QueuedOnlyAfterAnalysis ==
    status = "QUEUED_FOR_ADJUSTMENT" => HasAnalysisData(data)

\* C36: the final output paths of two different job ids differ, whatever
\* the jobs' original file names are.
C36_OutputPathsDiffer ==
    \A v, w \in Workers :
        (wPc[v] = "named" /\ wPc[w] = "named"
         /\ wTargets[v].jobId # wTargets[w].jobId) => wPaths[v][4] # wPaths[w][4]

\* ---------------------------------------------------------------------
\* The full system with the adjust worker making progress: a waiting task
\* is delivered to a free slot, and every command and ledger write of a run
\* returns.
SpecAdjustFair == Spec /\ WF_vars(WorkerNext)

\* An accepted submission: the status is QUEUED_FOR_ADJUSTMENT and a task
\* of the job waits in the queue or is being run.
AcceptedSubmission ==
    /\ status = "QUEUED_FOR_ADJUSTMENT"
    /\ (adjustQueue # <<>> \/ \E w \in Workers : wPc[w] # "idle")

\* C37: every accepted adjust submission is eventually resolved: from
\* QUEUED_FOR_ADJUSTMENT with its task enqueued, the job reaches COMPLETE or
\* FAILED.
C37_QueuedEventuallyResolved == AcceptedSubmission ~> (status \in {"COMPLETE", "FAILED"})

\* C37: a submission was accepted and its run has ended.
C37_Witness ==
    /\ status \in {"COMPLETE", "FAILED"}
    /\ data.targets # None /\ data.error # Some(MissingDataMsg)
    /\ adjustQueue = <<>> /\ wPc = [w \in Workers |-> "idle"]
    /\ submitsLeft = 0 /\ hPc = [h \in Handlers |-> "idle"]

\* ============================================================ frontend
\* The browser: App with FileUpload, JobProgress, SpeakerAdjuster and the
\* "Start New Job" button. A state update, the render that follows it and
\* the effects of that render are one step. The backend is seen through
\* the responses of its endpoints only.

\* POST /api/upload requests the browser sends in all.
MaxUploads == 3

\* The bodies GET /api/status/:id answers with, None for a 404 or a
\* failed fetch: the status and the data fields App reads. handleStatus
\* replaces speakers by the parsed value when JSON.parse accepts the
\* stored text and leaves the raw string otherwise.
StatusResponses ==
    LET Spoken == Some(<<Utt("A", 0, 10000, TenWords)>>)
        Silent == Some(<<>>)
        Analyzed(t) == HSet(UploadedData, ReadyData(t))
        Unreadable == HSet(UploadedData, Upd([speakers |-> Some(Garbled)]))
        Submitted == HSet(Analyzed(Spoken), QueuedData(<<[id |-> "A", target_wpm |-> 120]>>))
        Info(st, hash) == [status |-> st, data |-> hash]
        Ledgers ==
            {Info(st, UploadedData) : st \in AnalysisStatuses}
            \cup {Info("READY_FOR_INPUT", hash) :
                    hash \in {Analyzed(Spoken), Analyzed(Silent), UploadedData, Unreadable}}
            \cup {Info(st, Submitted) :
                    st \in {AdjustQueuedStatus, "PROCESSING_ADJUSTMENT",
                            "PROCESSING_RECONSTRUCTION", "COMPLETE"}}
            \cup {Info("COMPLETE", HSet(Submitted, FinalData(None))),
                  Info("FAILED", HSet(Submitted, FinalData(Some(MissingDataMsg)))),
                  Info("FAILED", FailedAnalysisData)}
        Parsed(field) ==
            IF field = None THEN None
            ELSE IF Parses(field[1]) THEN Some([array |-> JSONparse(field[1])])
            ELSE Some([string |-> field[1]])
        Body(info) ==
            [status |-> info.status, speakers |-> Parsed(info.data.speakers),
             error |-> info.data.error, outputFilePath |-> info.data.outputFilePath]
    IN {Some(Body(info)) : info \in Ledgers} \cup {None}

\* handleUploadError, the onUploadError of FileUpload and the onError of
\* SpeakerAdjuster: the message is shown and the job is FAILED.
handleUploadError(a, errorMessage) ==
    [a EXCEPT !.error = Some(errorMessage), !.jobStatus = "FAILED"]

\* handleStatusUpdate, the onStatusUpdate of JobProgress. A speakers value
\* that is a string goes through JSON.parse, whose SyntaxError the catch
\* turns into FAILED; the output file name is the last component of the
\* path.
handleStatusUpdate(a, statusUpdate) ==
    LET given == statusUpdate.status = "READY_FOR_INPUT" /\ statusUpdate.speakers # None
        isString == given /\ DOMAIN statusUpdate.speakers[1] = {"string"}
        thrown == isString /\ ~Parses(statusUpdate.speakers[1].string)
        speakers == IF isString THEN JSONparse(statusUpdate.speakers[1].string)
                    ELSE statusUpdate.speakers[1].array
    IN [jobId |-> a.jobId,
        jobStatus |-> IF thrown THEN "FAILED" ELSE statusUpdate.status,
        speakerData |-> IF given /\ ~thrown THEN speakers ELSE a.speakerData,
        error |-> IF thrown THEN Some("Failed to parse speaker data from backend.")
                  ELSE IF statusUpdate.status = "FAILED" /\ statusUpdate.error # None
                       THEN statusUpdate.error
                  ELSE a.error,
        outputFilename |->
            IF statusUpdate.status = "COMPLETE" /\ statusUpdate.outputFilePath # None
            THEN Some([lastComponentOf |-> statusUpdate.outputFilePath[1]])
            ELSE a.outputFilename]

\* What App renders below the heading and the error message.
Rendered(a) ==
    {c \in {"FileUpload", "JobProgress", "SpeakerAdjuster", "DownloadArea", "StartNewJob"} :
        \/ c = "FileUpload" /\ a.jobStatus = "IDLE"
        \/ c = "JobProgress" /\ a.jobId # None
              /\ a.jobStatus \notin {"IDLE", "FAILED", "READY_FOR_INPUT", "COMPLETE"}
        \/ c = "SpeakerAdjuster" /\ a.jobStatus = "READY_FOR_INPUT" /\ Len(a.speakerData) > 0
        \/ c = "DownloadArea" /\ a.jobStatus = "COMPLETE" /\ a.jobId # None
              /\ a.outputFilename # None
        \/ c = "StartNewJob" /\ a.jobStatus \in {"FAILED", "COMPLETE"}}

\* pollStatus up to its fetch: nothing without a job id or while the
\* component's isFetching ref is set; else the ref is set and the fetch
\* of the job's status leaves. b holds the component and the requests.
pollStatus(jobId, b) ==
    IF jobId = None \/ b.progress.isFetching THEN b
    ELSE [progress |-> [b.progress EXCEPT !.isFetching = TRUE],
          requests |-> [b.requests EXCEPT
                          !.fetches = Append(@, [jobId |-> jobId[1], live |-> TRUE])]]

\* JobProgress after App has rendered state a. Not rendered: the component
\* is unmounted, the cleanup of effect 2 clears the interval, and a fetch
\* still in flight belongs to no component any more (live is FALSE).
\* Rendered: a new component starts with isPollingActive FALSE and its
\* refs unset; effect 1 sets isPollingActive from jobId and currentStatus;
\* effect 2 runs when isPollingActive has changed: it polls at once and
\* sets the interval, whose callback keeps the jobId of that render, or it
\* clears the interval.
JobProgressEffects(a, p, rq) ==
    LET unmounted == [mounted |-> FALSE, isPollingActive |-> FALSE, isFetching |-> FALSE,
                      interval |-> None]
        terminalStates == {"READY_FOR_INPUT", "COMPLETE", "FAILED"}
        active == a.jobId # None /\ a.jobStatus \notin terminalStates
        q == IF p.mounted THEN p ELSE [unmounted EXCEPT !.mounted = TRUE]
    IN
    IF "JobProgress" \notin Rendered(a)
    THEN [progress |-> unmounted,
          requests |-> [rq EXCEPT !.fetches =
                           [k \in 1..Len(rq.fetches) |-> [rq.fetches[k] EXCEPT !.live = FALSE]]]]
    ELSE IF active = q.isPollingActive THEN [progress |-> q, requests |-> rq]
    ELSE IF active
         THEN pollStatus(a.jobId,
                         [progress |-> [q EXCEPT !.isPollingActive = TRUE,
                                                 !.interval = a.jobId],
                          requests |-> rq])
    ELSE [progress |-> [q EXCEPT !.isPollingActive = FALSE, !.interval = None],
          requests |-> rq]

\* App takes state a while JobProgress is p and the requests are rq: the
\* render and its effects. The backend's state is not touched.
Render(a, p, rq) ==
    LET b == JobProgressEffects(a, p, rq)
    IN /\ app' = a
       /\ progress' = b.progress
       /\ requests' = b.requests
       /\ UNCHANGED <<DownloadFrame, downloadVars>>

\* FileUpload.handleUpload up to its fetch: without a selected file an
\* error is reported; with one, onUploadError('') is called to clear the
\* message and the POST leaves.
FileUploadPress ==
    /\ "FileUpload" \in Rendered(app)
    /\ \/ Render(handleUploadError(app, "Please select a file first."), progress, requests)
       \/ /\ requests.jobs < MaxUploads
          /\ Render(handleUploadError(app, ""), progress,
                    [requests EXCEPT !.uploads = @ \cup {requests.jobs + 1},
                                     !.jobs = @ + 1])

\* FileUpload.handleUpload after its fetch, whether or not the component
\* is still mounted: onUploadSuccess with the new job's id (upload u makes
\* job u), or onUploadError with the failure.
FileUploadResolve ==
    \E u \in requests.uploads, ok \in BOOLEAN :
        LET handleUploadSuccess(newJobId) ==
                [jobId |-> Some(newJobId), jobStatus |-> "PROCESSING_UPLOAD_CLOUD",
                 speakerData |-> <<>>, error |-> None, outputFilename |-> None]
        IN Render(IF ok THEN handleUploadSuccess(u)
                  ELSE handleUploadError(app, "Upload failed"),
                  progress, [requests EXCEPT !.uploads = @ \ {u}])

\* SpeakerAdjuster.handleSubmit up to its fetch: onError('') is called to
\* clear the message; without a valid target an error is reported, else
\* the POST /api/adjust leaves.
SubmitPress ==
    /\ "SpeakerAdjuster" \in Rendered(app)
    /\ \/ Render(handleUploadError(handleUploadError(app, ""),
                                   "Please set at least one valid target WPM."),
                 progress, requests)
       \/ Render(handleUploadError(app, ""), progress,
                 [requests EXCEPT !.submits = @ + 1])

\* SpeakerAdjuster.handleSubmit after its fetch: onSubmit, which is
\* handleAdjustmentSubmit, or onError with the failure.
SubmitResolve ==
    /\ requests.submits > 0
    /\ \E ok \in BOOLEAN :
        LET handleAdjustmentSubmit ==
                [app EXCEPT !.jobStatus = "QUEUED_FOR_ADJUSTMENT", !.error = None,
                            !.speakerData = <<>>]
        IN Render(IF ok THEN handleAdjustmentSubmit
                  ELSE handleUploadError(app, "Failed to submit adjustments."),
                  progress, [requests EXCEPT !.submits = @ - 1])

\* The "Start New Job" button.
handleReset ==
    /\ "StartNewJob" \in Rendered(app)
    /\ Render([jobId |-> None, jobStatus |-> "IDLE", speakerData |-> <<>>,
               error |-> None, outputFilename |-> None], progress, requests)

\* pollStatus after its fetch: a body that is ok goes to onStatusUpdate,
\* anything else sets the component's own error text; the finally clears
\* the isFetching ref of the component that sent the fetch.
PollStatusSettle ==
    \E k \in 1..Len(requests.fetches), r \in StatusResponses :
        LET RemoveAt(q, i) == [n \in 1..(Len(q) - 1) |-> IF n < i THEN q[n] ELSE q[n + 1]]
        IN
        Render(IF r = None THEN app ELSE handleStatusUpdate(app, r[1]),
               IF requests.fetches[k].live THEN [progress EXCEPT !.isFetching = FALSE]
               ELSE progress,
               [requests EXCEPT !.fetches = RemoveAt(@, k)])

\* The interval's callback: pollStatus unless the ref is set.
IntervalTick ==
    /\ progress.interval # None
    /\ LET b == IF ~progress.isFetching
                THEN pollStatus(progress.interval, [progress |-> progress, requests |-> requests])
                ELSE [progress |-> progress, requests |-> requests]
       IN /\ progress' = b.progress
          /\ requests' = b.requests
          /\ UNCHANGED <<app, DownloadFrame, downloadVars>>

SpecApp ==
    Init /\ [][\/ FileUploadPress \/ FileUploadResolve \/ SubmitPress \/ SubmitResolve
               \/ handleReset \/ PollStatusSettle \/ IntervalTick]_vars

\* C38: whenever App's jobStatus is not IDLE, App renders the progress
\* poller, the speaker adjuster, the download area or the "Start New Job"
\* button, whatever status response has arrived.
C38_NoDeadEnd ==
    app.jobStatus # "IDLE" =>
        Rendered(app) \cap {"JobProgress", "SpeakerAdjuster", "DownloadArea", "StartNewJob"} # {}

\* The status fetches in flight for job j.
FetchesFor(j) == {k \in 1..Len(requests.fetches) : requests.fetches[k].jobId = j}

OneFetchPerJob == \A j \in 1..MaxUploads : Cardinality(FetchesFor(j)) <= 1

PollingActiveWhileProcessing ==
    progress.isPollingActive <=>
        (app.jobId # None /\ app.jobStatus \notin {"READY_FOR_INPUT", "COMPLETE", "FAILED"})

\* A step that leaves App's state alone starts no fetch while polling is
\* inactive: an interval tick is such a step.
NoTickWhenInactive ==
    (~progress.isPollingActive /\ app' = app)
        => Len(requests'.fetches) <= Len(requests.fetches)

C39_TickDiscipline == [][NoTickWhenInactive]_vars

\* C39: at most one status fetch of a job is in flight; polling is active
\* exactly while a job id is set and the status is none of READY_FOR_INPUT,
\* COMPLETE, FAILED; once polling is inactive no interval tick starts a
\* fetch.
C39_PollingDiscipline ==
    [](OneFetchPerJob /\ PollingActiveWhileProcessing) /\ [][NoTickWhenInactive]_vars

====
